---------------------------- MODULE Spec2Model ----------------------------
(* A model of suba.py, a template engine: the lexer (gen_chunks), the     *)
(* parser (gen_ast) and the IR assembler with its cursor stack            *)
(* (compile_ast), the rewriter (Transformer), the include resolver and    *)
(* the code cache, and the execution driver (template).                   *)
(*                                                                        *)
(* A string is a sequence of symbols.  A symbol is one character, or a    *)
(* word that stands for a run of characters none of which is one of the   *)
(* marks % ( ) / : ("if" stands for "if c", "elif" for "elif c").         *)
EXTENDS Integers, Sequences, FiniteSets, TLC

VARIABLES
    text,          \* gen_chunks: the template source
    start,         \* gen_chunks: the scan offset (0-based)
    chunks,        \* chunks yielded by gen_chunks and not yet pulled by gen_ast
    lexerr,        \* the exception gen_chunks raises at its next step
    eof,           \* gen_chunks has returned
    ASCEND_COUNT,  \* the module global of that name
    cursor,        \* compile_ast: the cursor stack (body ids)
    bodies,        \* the statement lists of the IR, by body id; 1 is execute's body
    stack,         \* gen_ast: literal text not yet yielded
    pstate,        \* "parsing", "done", "error", "rendered"
    err,           \* the exception that ended the compile or the render
    output,        \* the fragments the render delivered
    fed,           \* number of chunks gen_ast has consumed in this compile
    open,          \* history: the blocks opened and not yet closed by a %/
    last,          \* history: what the last step did
    compiles,      \* number of compiles started in this process
    seenStore,     \* Transformer: names the template has stored
    seenFuncs,     \* Transformer: names of the functions the template defines
    scope,         \* the function definitions the visit is inside of (<<>>: execute)
    bound,         \* history: per scope level, the names bound so far in it
    funcs,         \* history: what each function the template defines produces
    lastRead,      \* history: the last Load of a name and what became of it
    lastCall,      \* history: the last call in yield position
    visited,       \* number of nodes the Transformer has visited
    fmtime,        \* the included file: its mtime
    fcontent,      \* the included file: the version of its content
    fhash,         \* hash of the included file's full name
    thash,         \* hash of the including template's text
    ghash,         \* hash of the full name of the including template's file
    gmtime,        \* the including template's file: its mtime
    _code_cache,   \* the module global of that name
    call,          \* the template() call in progress, or the last one
    shown,         \* the content version the last finished render put out
    renders,       \* number of renders finished
    atCall,        \* history: the file's content version when the call was made
    quiet,         \* history: the file was not modified during the call
    doneAt,        \* history: the file's content version when the last render ended
    between,       \* history: the file was modified between the last render and the call
    files,         \* the places where a file exists
    resolved,      \* the last file name resolved: the request and what came of it
    stripWhitespace, \* the option of the render
    run,           \* a literal-text run
    place,         \* where the statement of the run is
    emitted,       \* whether the Transformer has visited it, and the fragments it yields
    restripped,    \* the fragment stripped once more
    expr,          \* the expression synth is called with
    _synth_cache,  \* the module global of that name
    tree,          \* what the last call of synth built
    synthCalls,    \* number of calls of synth(expr)
    parsed,        \* history: number of calls that ran the loop over the characters
    workers,       \* the threads that compile: template, position, compile_ast's locals
    spans,         \* history: the list source text belongs in, and what each list is due
    optcall,       \* the last template(text=..) call of a text: its options and output
    splice,        \* an included file's statements, and what the Transformer made of them
    lines,         \* gen_ast: lineno, the stacked text and the nodes it located
    share          \* the objects that hold F's function-definition IR, and F's includers

lexVars   == <<text, start, chunks, lexerr, eof>>
parseVars == <<ASCEND_COUNT, cursor, bodies, stack, pstate, err, output, fed, open, last, compiles>>
rewriteVars == <<seenStore, seenFuncs, scope, bound, funcs, lastRead, lastCall, visited>>
cacheVars == <<fmtime, fcontent, fhash, thash, ghash, gmtime, _code_cache, call, shown, renders,
               atCall, quiet, doneAt, between>>
pathVars == <<files, resolved>>
stripVars == <<stripWhitespace, run, place, emitted, restripped>>
synthVars == <<expr, _synth_cache, tree, synthCalls, parsed>>
threadVars == <<workers>>
olderVars == <<pathVars, stripVars, synthVars, threadVars>>
spanVars == <<spans>>
optVars == <<optcall>>
spliceVars == <<splice>>
lineVars == <<lines>>
shareVars == <<share>>
laterVars == <<spanVars, optVars, spliceVars, lineVars, shareVars>>
moreVars == <<olderVars, laterVars>>
vars      == <<lexVars, parseVars, rewriteVars, cacheVars, moreVars>>

(* ---------------------------------------------------------------------- *)
(* Bounds                                                                 *)
(* ---------------------------------------------------------------------- *)
MaxLen == 4
MaxChunks == 4
MaxCompiles == 2
MaxNodes == 4
MaxTime == 3
MaxRenders == 3
MaxMainTime == 2
MaxSynthCalls == 2
MaxScanLen == 6
MaxLineChunks == 3
MaxIncluders == 2
\* bits of the significand of a float (53 in the host), scaled down
MantBits == 4

(* ---------------------------------------------------------------------- *)
(* Program constants                                                      *)
(* ---------------------------------------------------------------------- *)
CLOSE_MARK == "/"
OPEN_MARK == "%"
OPEN_PAREN == "("
CLOSE_PAREN == ")"
\* the absent type-spec (None); a type-spec that matched is never empty
None == <<>>
\* no exception
NoErr == "none"

(* type_re: the flag characters and the conversion letters of the model's *)
(* alphabet (the code's classes are [0-9.#0+-] and [diouxXeEfFgGcrsqm]).  *)
TypeFlags == {"0"}
TypeLetters == {"d", "q", "m"}

(* The characters template texts are drawn from.                          *)
Alphabet == {"d", "n", "%", "(", ")", "/"}

(* ---------------------------------------------------------------------- *)
(* Strings                                                                *)
(* ---------------------------------------------------------------------- *)
\* text[a:b] with 0-based offsets, as Python slices it
Slice(s, a, b) == IF a >= b THEN <<>> ELSE SubSeq(s, a + 1, b)

\* text[i] with a 0-based offset
At(s, i) == s[i + 1]

RECURSIVE Join(_)
Join(ss) == IF ss = <<>> THEN <<>> ELSE Head(ss) \o Join(Tail(ss))

\* text.find(ch, from): the first offset >= from holding ch, or -1
Find(s, ch, from) ==
    LET hits == {i \in from..(Len(s) - 1) : At(s, i) = ch}
    IN IF hits = {} THEN -1 ELSE CHOOSE i \in hits : \A j \in hits : i <= j

RECURSIVE MatchScan(_, _, _, _, _)
MatchScan(s, find, against, i, count) ==
    IF i >= Len(s) THEN -1
    ELSE LET c == IF At(s, i) = against THEN count + 1
                  ELSE IF At(s, i) = find THEN count - 1 ELSE count
         IN IF c = 0 THEN i ELSE MatchScan(s, find, against, i + 1, c)

\* a scan that stops at the first closing parenthesis, whatever was opened
FirstClose(s, find, against, from) == Find(s, find, from)

\* match_forward: the offset of the closing parenthesis, or -1
match_forward(s, find, against, from) == MatchScan(s, find, against, from, 1)

RECURSIVE FlagRun(_)
FlagRun(s) == IF s # <<>> /\ Head(s) \in TypeFlags THEN 1 + FlagRun(Tail(s)) ELSE 0

\* type_re.match(text_part).group(0), or None
TypeMatch(s) ==
    LET n == FlagRun(s)
    IN IF n < Len(s) /\ s[n + 1] \in TypeLetters THEN SubSeq(s, 1, n + 1) ELSE None

Chunk(p, t) == [payload |-> p, type |-> t]

(* ---------------------------------------------------------------------- *)
(* gen_chunks: one iteration of its while loop.  The result holds the     *)
(* chunks it yields, the new offset, whether the generator returns, and   *)
(* the exception it raises after the chunks were consumed.                *)
(* ---------------------------------------------------------------------- *)
LexResult(cs, st, fin, e) == [chunks |-> cs, start |-> st, eof |-> fin, err |-> e]

\* where scanning resumes after a % that opens no directive
\* a lexer that reads the character after the mark as part of the mark
AfterPercentSkip(i) == i + 2

AfterPercent(i) == i + 1

gen_chunks(s, st) ==
    IF ~(-1 < st /\ st < Len(s)) THEN LexResult(<<>>, st, TRUE, NoErr)
    ELSE LET i == Find(s, OPEN_MARK, st)
         IN IF i = -1 THEN LexResult(<<Chunk(Slice(s, st, Len(s)), None)>>, st, TRUE, NoErr)
            ELSE LET before == Chunk(Slice(s, st, i), None)
                 IN IF i + 1 >= Len(s)
                    THEN LexResult(<<before>>, st, FALSE, "IndexError")
                    ELSE IF At(s, i + 1) = OPEN_PAREN
                    THEN LET m == match_forward(s, CLOSE_PAREN, OPEN_PAREN, i + 2)
                         IN IF m = -1
                            THEN LexResult(<<before>>, st, FALSE, "FormatError")
                            ELSE LET ty == TypeMatch(Slice(s, m + 1, Len(s)))
                                     st2 == IF ty = None THEN m + 1 ELSE m + 1 + Len(ty)
                                 IN LexResult(<<before, Chunk(Slice(s, i + 1, m + 1), ty)>>,
                                              st2, FALSE, NoErr)
                    ELSE IF At(s, i + 1) = CLOSE_MARK
                    THEN LexResult(<<before, Chunk(<<CLOSE_MARK>>, None)>>, i + 2, FALSE, NoErr)
                    ELSE LexResult(<<before, Chunk(<<OPEN_MARK>>, None)>>,
                                   AfterPercent(i), FALSE, NoErr)

(* ---------------------------------------------------------------------- *)
(* IR nodes.  A block statement names its statement lists by body id.     *)
(* ---------------------------------------------------------------------- *)
NoNode == [k |-> "none"]
Pass == [k |-> "pass"]
\* Expr(value=Yield(value=Str(s=t)))
YStr(t) == [k |-> "ystr", s |-> t]
\* an expression statement: form "plain" is Expr(value=e), "quote" and
\* "multiline" are Expr(value=e.replace(..)), "mod" is ('%'+spec) % e;
\* y tells whether the value is wrapped in a Yield
ExprStmt(e, form, spec, y) == [k |-> "expr", e |-> e, form |-> form, spec |-> spec, y |-> y]
BlockStmt(h, b, o) == [k |-> "block", hdr |-> h, body |-> b, orelse |-> o]

\* the statements that carry an orelse list
HasOrelse(h) == h \in {"if", "for"}
BlockHeaders == {"if", "for", "def"}

\* hasattr(node, 'value')
HasValue(n) == n.k = "expr"

(* ---------------------------------------------------------------------- *)
(* ast.parse on the fragments of the model's alphabet: names are runs of  *)
(* letters, the operators are / // %, with parentheses and calls; a block *)
(* header is its keyword followed by ": pass".                            *)
(* ---------------------------------------------------------------------- *)
NameSyms == {"d", "x", "n"}
OpSyms == {"/", "%"}

RECURSIVE IsExpr(_)
IsExpr(e) ==
    LET n == Len(e)
    IN /\ n > 0
       /\ \/ \A i \in 1..n : e[i] \in NameSyms
          \/ /\ e[1] = OPEN_PAREN
             /\ match_forward(e, CLOSE_PAREN, OPEN_PAREN, 1) = n - 1
             /\ (n = 2 \/ IsExpr(SubSeq(e, 2, n - 1)))
          \/ \E k \in 2..(n - 1) :
                /\ e[k] \in OpSyms
                /\ IsExpr(SubSeq(e, 1, k - 1))
                /\ \/ IsExpr(SubSeq(e, k + 1, n))
                   \/ /\ e[k] = "/" /\ k + 1 < n /\ e[k + 1] = "/"
                      /\ IsExpr(SubSeq(e, k + 2, n))
          \/ \E k \in 2..(n - 1) :
                /\ e[k] = OPEN_PAREN /\ e[n] = CLOSE_PAREN
                /\ match_forward(e, CLOSE_PAREN, OPEN_PAREN, k) = n - 1
                /\ IsExpr(SubSeq(e, 1, k - 1))
                /\ (k + 1 = n \/ IsExpr(SubSeq(e, k + 1, n - 1)))

\* ast.parse(eval_part).body: "empty", "error", or its first statement
ParseEmbedded(e) ==
    IF e = <<>> THEN [r |-> "empty"]
    ELSE IF Len(e) = 3 /\ e[1] \in BlockHeaders /\ e[2] = ":" /\ e[3] = "pass"
    THEN [r |-> "block", hdr |-> e[1]]
    ELSE IF IsExpr(e) THEN [r |-> "expr"]
    ELSE [r |-> "error"]

(* ---------------------------------------------------------------------- *)
(* The parser state: the module global ASCEND_COUNT (ac), compile_ast's   *)
(* cursor and tree, gen_ast's text stack, the exception raised (err),     *)
(* and the history of open blocks.                                        *)
(* ---------------------------------------------------------------------- *)
Top(P) == P.cursor[Len(P.cursor)]
Front(q) == SubSeq(q, 1, Len(q) - 1)
Fail(P, e) == IF P.err # NoErr THEN P ELSE [P EXCEPT !.err = e]
NoLast == [what |-> "start", hdr |-> "", into |-> 0, elifs |-> 0, pure |-> TRUE, want |-> 0]

\* _yieldall: every expression statement of the list that is not yet a
\* yield (and is no include call) is wrapped in a Yield
YieldOne(st) == IF st.k = "expr" /\ ~st.y THEN [st EXCEPT !.y = TRUE] ELSE st
_yieldall(body) == [i \in 1..Len(body) |-> YieldOne(body[i])]

\* compile_ast, "if expr is not None": cursor[-1].append(expr)
AppendNode(P, node) ==
    IF node = NoNode THEN P
    ELSE IF P.cursor = <<>> THEN Fail(P, "IndexError")
    ELSE [P EXCEPT !.bodies[Top(P)] = Append(@, node)]

\* how many bodies an Ascend closes
AscendPops(ac) == ac

\* compile_ast, "for _ in range(ASCEND_COUNT)"
RECURSIVE AscendLoop(_, _)
AscendLoop(P, n) ==
    IF n = 0 THEN P
    ELSE IF P.cursor = <<>> THEN Fail(P, "IndexError")
    ELSE AscendLoop([P EXCEPT !.bodies[Top(P)] = _yieldall(@),
                              !.cursor = Front(@)], n - 1)

\* compile_ast, "if motion is Ascend"
DoAscend(P) ==
    IF Len(P.cursor) < 2 THEN Fail(P, "FormatError")
    ELSE LET Q == AscendLoop(P, AscendPops(P.ac))
         IN IF Q.err # NoErr THEN Q ELSE [Q EXCEPT !.ac = 1]

\* compile_ast, "elif motion is Descend"
DoDescend(P, node) ==
    IF node.k # "block" THEN Fail(P, "AttributeError")
    ELSE [P EXCEPT !.cursor = Append(@, node.body),
                   !.bodies[node.body] = Tail(@)]

\* compile_ast, "elif motion is ElseDescend": cursor[-1] = cursor[-2][-1].orelse
DoElseDescend(P) ==
    IF Len(P.cursor) < 2 THEN Fail(P, "IndexError")
    ELSE LET parent == P.bodies[P.cursor[Len(P.cursor) - 1]]
         IN IF parent = <<>> THEN Fail(P, "IndexError")
            ELSE LET lst == parent[Len(parent)]
                 IN IF lst.k # "block" \/ lst.orelse = 0 THEN Fail(P, "AttributeError")
                    ELSE [P EXCEPT !.cursor[Len(P.cursor)] = lst.orelse]

\* compile_ast: the body of its loop, for one (expr, motion) pair
Emit(P, node, motion) ==
    IF P.err # NoErr THEN P
    ELSE LET Q == AppendNode(P, node)
         IN IF Q.err # NoErr THEN Q
            ELSE IF motion = "Ascend" THEN DoAscend(Q)
            ELSE IF motion = "Descend" THEN DoDescend(Q, node)
            ELSE IF motion = "ElseDescend" THEN DoElseDescend(Q)
            ELSE Q

\* gen_ast: "yield all text on the stack before proceeding"
Flush(P) ==
    IF P.stack = <<>> THEN P
    ELSE LET t == Join(P.stack)
             Q == IF Len(t) > 0 THEN Emit(P, YStr(t), "NoMotion") ELSE P
         IN [Q EXCEPT !.stack = <<>>]

EndsWith(e, sym) == e # <<>> /\ e[Len(e)] = sym
StartsWithElse(e) == Len(e) >= 2 /\ e[1] = "else" /\ e[2] = ":"
StartsWithElif(e) == e # <<>> /\ e[1] = "elif"

\* gen_ast: the type_part of a directive, wrapped round the parsed node
Typed(node, ty) ==
    IF {"q", "m"} \subseteq {ty[i] : i \in 1..Len(ty)}
    THEN ExprStmt(node.e, "quote_multiline", ty, FALSE)
    ELSE IF "q" \in {ty[i] : i \in 1..Len(ty)} THEN ExprStmt(node.e, "quote", ty, FALSE)
    ELSE IF "m" \in {ty[i] : i \in 1..Len(ty)} THEN ExprStmt(node.e, "multiline", ty, FALSE)
    ELSE ExprStmt(node.e, "mod", ty, TRUE)

\* gen_ast: "elif chunk[0] == OPEN_PAREN"
Directive(P, c) ==
    LET eval0 == Slice(c.payload, 1, Len(c.payload) - 1)
        isHdr == EndsWith(eval0, ":")
        eval1 == IF isHdr THEN eval0 \o <<"pass">> ELSE eval0
    IN IF StartsWithElse(eval1) THEN Emit(P, NoNode, "ElseDescend")
       ELSE LET isElif == StartsWithElif(eval1)
                P0 == IF isElif THEN Emit(P, NoNode, "ElseDescend") ELSE P
                P1 == IF isElif /\ P0.err = NoErr THEN [P0 EXCEPT !.ac = @ + 1] ELSE P0
                eval2 == IF isElif THEN <<"if">> \o Tail(eval1) ELSE eval1
                motion == IF isElif \/ isHdr THEN "Descend" ELSE "NoMotion"
                pr == ParseEmbedded(eval2)
                n == Len(P1.bodies)
                node0 == IF pr.r = "block"
                         THEN BlockStmt(pr.hdr, n + 1, IF HasOrelse(pr.hdr) THEN n + 2 ELSE 0)
                         ELSE IF pr.r = "expr" THEN ExprStmt(eval2, "plain", None, FALSE)
                         ELSE NoNode
                P2 == IF pr.r = "block"
                      THEN [P1 EXCEPT !.bodies = @ \o <<(<<Pass>>), (<<>>)>>]
                      ELSE P1
                P3 == IF c.type # None /\ ~HasValue(node0)
                      THEN [P2 EXCEPT !.stack = Append(@, c.type)] ELSE P2
                node == IF c.type # None /\ HasValue(node0) THEN Typed(node0, c.type) ELSE node0
            IN IF P1.err # NoErr THEN P1
               ELSE IF pr.r = "error" THEN Fail(P1, "Exception")
               ELSE IF node = NoNode /\ motion = "Descend" THEN Fail(P3, "AttributeError")
               ELSE Emit(P3, node, motion)

\* what a chunk is in the template language
ChunkKind(c) ==
    LET p == c.payload
    IN IF p = <<>> THEN "empty"
       ELSE IF p[1] \notin {CLOSE_MARK, OPEN_PAREN} THEN "text"
       ELSE IF p = <<CLOSE_MARK>> THEN "close"
       ELSE IF p[1] = CLOSE_MARK THEN "text"
       ELSE LET e == Slice(p, 1, Len(p) - 1)
            IN IF StartsWithElse(e) THEN "else"
               ELSE IF StartsWithElif(e) THEN "elif"
               ELSE IF EndsWith(e, ":") THEN "header"
               ELSE IF e = <<>> THEN "nothing"
               ELSE "expr"

\* gen_ast: the body of its loop, for one chunk
ParseChunk(P, c) ==
    IF Len(c.payload) = 0 THEN P
    ELSE IF c.payload[1] \notin {CLOSE_MARK, OPEN_PAREN}
    THEN [P EXCEPT !.stack = Append(@, c.payload)]
    ELSE LET F == Flush(P)
         IN IF F.err # NoErr THEN F
            ELSE IF c.payload = <<CLOSE_MARK>> THEN Emit(F, NoNode, "Ascend")
            ELSE IF c.payload[1] = OPEN_PAREN THEN Directive(F, c)
            ELSE [F EXCEPT !.stack = Append(@, c.payload)]

\* The history of open blocks, kept beside the parser: a header opens a
\* block in the list the cursor is in (into), elif and else continue the
\* block, a close marker closes it.  body and orelse are the lists of the
\* block's current branch; want is the list the template language puts
\* the cursor in after the chunk (0: none).
LastStmt(bs, b) == bs[b][Len(bs[b])]
EndsInBlock(bs, b) == b # 0 /\ bs[b] # <<>> /\ LastStmt(bs, b).k = "block"

Nest(P, Q, c) ==
    LET kind == ChunkKind(c)
        n == Len(P.open)
        F == Flush(P)
        seen == [NoLast EXCEPT !.what = kind]
        notPure == IF n = 0 THEN P.open ELSE [P.open EXCEPT ![n].pure = FALSE]
    IN IF kind = "header" /\ Q.err # NoErr THEN [Q EXCEPT !.last = seen]
       ELSE IF kind = "header"
       THEN LET blk == LastStmt(Q.bodies, Top(F))
            IN [Q EXCEPT !.open = Append(notPure, [hdr |-> blk.hdr, into |-> Top(F), body |-> blk.body,
                                                   orelse |-> blk.orelse, elifs |-> 0,
                                                   pure |-> TRUE]),
                         !.last = [seen EXCEPT !.hdr = blk.hdr, !.want = blk.body]]
       ELSE IF kind = "elif" /\ n > 0
       THEN LET met == EndsInBlock(Q.bodies, P.open[n].orelse)
                blk == LastStmt(Q.bodies, P.open[n].orelse)
            IN [Q EXCEPT !.open = IF met THEN [@ EXCEPT ![n].body = blk.body,
                                                        ![n].orelse = blk.orelse,
                                                        ![n].elifs = @ + 1]
                                  ELSE [@ EXCEPT ![n].elifs = @ + 1],
                         !.last = [what |-> kind, hdr |-> P.open[n].hdr, into |-> P.open[n].into,
                                   elifs |-> P.open[n].elifs + 1, pure |-> P.open[n].pure,
                                   want |-> IF met THEN blk.body ELSE 0]]
       ELSE IF kind = "else" /\ n > 0
       THEN [Q EXCEPT !.last = [what |-> kind, hdr |-> P.open[n].hdr, into |-> P.open[n].into,
                                elifs |-> P.open[n].elifs, pure |-> P.open[n].pure,
                                want |-> P.open[n].orelse]]
       ELSE IF kind = "close" /\ n > 0
       THEN [Q EXCEPT !.open = Front(@),
                      !.last = [what |-> kind, hdr |-> P.open[n].hdr, into |-> P.open[n].into,
                                elifs |-> P.open[n].elifs, pure |-> P.open[n].pure,
                                want |-> P.open[n].into]]
       ELSE IF kind = "expr"
       THEN [Q EXCEPT !.open = notPure, !.last = seen]
       ELSE [Q EXCEPT !.last = seen]

(* ---------------------------------------------------------------------- *)
(* compile_ast after its loop: the Transformer visits execute, and        *)
(* visit_FunctionDef runs _yieldall on the body of execute and on the     *)
(* body of every function the template defines.                           *)
(* ---------------------------------------------------------------------- *)
\* the block statements of the tree whose header is one of hs
Blocks(bs, hs) ==
    UNION {{bs[b][i] : i \in {j \in 1..Len(bs[b]) :
                bs[b][j].k = "block" /\ bs[b][j].hdr \in hs}} : b \in 1..Len(bs)}

DefBodies(bs) == {1} \cup {st.body : st \in Blocks(bs, {"def"})}

Transform(P) ==
    [P EXCEPT !.bodies = [b \in 1..Len(P.bodies) |->
                             IF b \in DefBodies(P.bodies) THEN _yieldall(P.bodies[b])
                             ELSE P.bodies[b]]]

\* gen_ast after its loop ("yield the remaining text"), then the transform
FinishParse(P) ==
    LET Q == IF P.stack # <<>> THEN Emit(P, YStr(Join(P.stack)), "NoMotion") ELSE P
    IN IF Q.err # NoErr THEN Q ELSE Transform([Q EXCEPT !.stack = <<>>])

(* ---------------------------------------------------------------------- *)
(* Running execute.  The keyword arguments bind x to the string "v" and   *)
(* n to the integer 3; every other name is unbound.                       *)
(* ---------------------------------------------------------------------- *)
RECURSIVE Unparen(_)
Unparen(e) ==
    IF Len(e) >= 2 /\ e[1] = OPEN_PAREN
       /\ match_forward(e, CLOSE_PAREN, OPEN_PAREN, 1) = Len(e) - 1
    THEN Unparen(SubSeq(e, 2, Len(e) - 1)) ELSE e

StrVal(t) == [ty |-> "str", s |-> t]
IntVal == [ty |-> "int", s |-> <<"3">>]
ObjVal == [ty |-> "obj", s |-> <<>>]
Raise(e) == [ty |-> "err", s |-> <<e>>]

\* a call: an opening parenthesis that follows a name or a closing parenthesis
HasCall(u) == \E i \in 2..Len(u) : u[i] = OPEN_PAREN /\ u[i - 1] \in NameSyms \cup {CLOSE_PAREN}
\* every name of the expression is the name n
OnlyN(u) == /\ \A i \in 1..Len(u) : u[i] \notin NameSyms \ {"n"}
            /\ \A i \in 2..Len(u) : ~(u[i] = "n" /\ u[i - 1] = "n")

\* the value of an expression of the embedded language
EvalExpr(e) ==
    LET u == Unparen(e)
    IN IF u = <<"x">> THEN StrVal(<<"v">>)
       ELSE IF u = <<"n">> THEN IntVal
       ELSE IF u = <<>> THEN ObjVal
       ELSE IF \A i \in 1..Len(u) : u[i] \in NameSyms THEN Raise("KeyError")
       ELSE IF OnlyN(u) /\ ~HasCall(u) THEN IntVal
       ELSE Raise("Error")

\* the value a bare `%(expr)` hands to the caller
PlainFragment(v) == v

\* the value an expression statement computes
StmtValue(st) ==
    LET v == EvalExpr(st.e)
    IN IF v.ty = "err" THEN v
       ELSE IF st.form = "plain" THEN PlainFragment(v)
       ELSE IF st.form = "mod"
       THEN (IF v.ty = "int" THEN StrVal(v.s) ELSE Raise("TypeError"))
       ELSE (IF v.ty = "str" THEN v ELSE Raise("AttributeError"))

Rendered(o, e) == [out |-> o, err |-> e]

RECURSIVE RenderStmts(_, _, _)
RenderStmt(bs, st, truth) ==
    IF st.k = "ystr" THEN Rendered(<<StrVal(st.s)>>, NoErr)
    ELSE IF st.k = "expr"
    THEN LET v == StmtValue(st)
         IN IF v.ty = "err" THEN Rendered(<<>>, v.s[1])
            ELSE IF st.y THEN Rendered(<<v>>, NoErr)
            ELSE Rendered(<<>>, NoErr)
    ELSE IF st.k = "block" /\ st.hdr = "if"
    THEN (IF st.body \in truth THEN RenderStmts(bs, bs[st.body], truth)
          ELSE RenderStmts(bs, bs[st.orelse], truth))
    ELSE IF st.k = "block" /\ st.hdr = "for"
    THEN LET a == IF st.body \in truth THEN RenderStmts(bs, bs[st.body], truth)
                  ELSE Rendered(<<>>, NoErr)
         IN IF a.err # NoErr THEN a
            ELSE LET b == RenderStmts(bs, bs[st.orelse], truth)
                 IN Rendered(a.out \o b.out, b.err)
    ELSE Rendered(<<>>, NoErr)

RenderStmts(bs, stmts, truth) ==
    IF stmts = <<>> THEN Rendered(<<>>, NoErr)
    ELSE LET h == RenderStmt(bs, Head(stmts), truth)
         IN IF h.err # NoErr THEN h
            ELSE LET r == RenderStmts(bs, Tail(stmts), truth)
                 IN Rendered(h.out \o r.out, r.err)

\* the bodies guarded by a condition or a loop
CondBodies(bs) == {st.body : st \in Blocks(bs, {"if", "for"})}

\* ''.join(fragments), when every fragment is a string
RECURSIVE Concat(_)
Concat(fs) == IF fs = <<>> THEN <<>> ELSE Head(fs).s \o Concat(Tail(fs))
AllStrings(fs) == \A i \in 1..Len(fs) : fs[i].ty = "str"

(* ---------------------------------------------------------------------- *)
(* The Transformer.  It visits the nodes of the tree in document order    *)
(* and keeps two maps for the whole tree, seenStore and seenFuncs.  The   *)
(* history beside it keeps what Python's scoping makes of the same        *)
(* nodes: the names bound so far in every scope the visit is inside of.   *)
(* ---------------------------------------------------------------------- *)
\* Transformer.__init__: the initial keys of seenStore
ReservedNames == {"args", "ResourceModified", "None", "True", "False"}
\* builtins.__dict__, as far as the names of the model go
Builtins == {"len"}
\* the names the nodes of a template are drawn from: the names it reads,
\* the names it binds, the names of its functions and of their parameters
Names == {"n", "f", "len", "args"}
StoreNames == {"n", "len"}
FuncNames == {"f"}
ParamNames == {"n"}
\* what a function the template defines produces when called: the
\* fragments it yields (a macro), or the string or integer it returns
Kinds == {"macro", "str", "int"}

NoRead == [id |-> "", rewritten |-> FALSE, free |-> FALSE, value |-> ""]
NoCall == [id |-> "", defined |-> FALSE, kind |-> "", joined |-> FALSE,
           result |-> [ty |-> "none", s |-> <<>>]]

\* visit_Name on a Load: the name is replaced by args[name]
Rewrites(id, ss, sf) ==
    id # "include" /\ id \notin ss /\ id \notin Builtins /\ id \notin sf

\* a plain name read in the current scope finds a binding: one made in the
\* scope or in an enclosing one, a builtin or a reserved name
Visible(id, bd) ==
    \/ id \in Builtins \cup ReservedNames
    \/ \E i \in 1..Len(bd) : id \in bd[i]

\* what reading the name gives at run time, every name being passed as a
\* keyword argument: the argument, the template's binding, or an exception
ReadValue(id, rewritten, bd) ==
    IF rewritten THEN "argument"
    ELSE IF Visible(id, bd) THEN "binding"
    ELSE "NameError"

ReadOf(id, ss, sf, bd) ==
    [id |-> id, rewritten |-> Rewrites(id, ss, sf), free |-> ~Visible(id, bd),
     value |-> ReadValue(id, Rewrites(id, ss, sf), bd)]

\* the value a call of a function of the kind has
MacroText == <<"a", "b">>
FuncResult(kind) ==
    IF kind = "macro" THEN [ty |-> "gen", s |-> MacroText]
    ELSE IF kind = "str" THEN StrVal(<<"v">>)
    ELSE IntVal

\* ''.join(v)
StrJoin(v) ==
    IF v.ty \in {"gen", "str"} THEN StrVal(v.s) ELSE Raise("TypeError")

InitTransformer ==
    /\ seenStore = ReservedNames
    /\ seenFuncs = {}
    /\ scope = <<>>
    /\ bound = <<{}>>
    /\ funcs = [id \in {} |-> ""]
    /\ lastRead = NoRead
    /\ lastCall = NoCall
    /\ visited = 0

BindHere(bd, id) == [bd EXCEPT ![Len(bd)] = @ \cup {id}]

\* visit_Name, ctx Load
VisitLoad ==
    /\ visited < MaxNodes
    /\ \E id \in Names : lastRead' = ReadOf(id, seenStore, seenFuncs, bound)
    /\ visited' = visited + 1
    /\ UNCHANGED <<seenStore, seenFuncs, scope, bound, funcs, lastCall>>
    /\ UNCHANGED <<lexVars, parseVars, cacheVars, moreVars>>

\* visit_Name, ctx Store: an assignment target or a loop variable
VisitStore ==
    /\ visited < MaxNodes
    /\ \E id \in StoreNames :
          /\ seenStore' = seenStore \cup {id}
          /\ bound' = BindHere(bound, id)
    /\ visited' = visited + 1
    /\ UNCHANGED <<seenFuncs, scope, funcs, lastRead, lastCall>>
    /\ UNCHANGED <<lexVars, parseVars, cacheVars, moreVars>>

\* visit_Import
VisitImport ==
    /\ visited < MaxNodes
    /\ \E id \in StoreNames :
          /\ seenStore' = seenStore \cup {id}
          /\ bound' = BindHere(bound, id)
    /\ visited' = visited + 1
    /\ UNCHANGED <<seenFuncs, scope, funcs, lastRead, lastCall>>
    /\ UNCHANGED <<lexVars, parseVars, cacheVars, moreVars>>

\* visit_FunctionDef, up to its generic_visit of the function's body
VisitFunctionDef ==
    /\ visited < MaxNodes
    /\ \E name \in FuncNames, arg \in ParamNames, kind \in Kinds :
          /\ seenFuncs' = seenFuncs \cup {name}
          /\ seenStore' = seenStore \cup {arg}
          /\ scope' = Append(scope, name)
          /\ bound' = Append(BindHere(bound, name), {arg})
          /\ funcs' = [id \in DOMAIN funcs \cup {name} |->
                          IF id = name THEN kind ELSE funcs[id]]
    /\ visited' = visited + 1
    /\ UNCHANGED <<lastRead, lastCall>>
    /\ UNCHANGED <<lexVars, parseVars, cacheVars, moreVars>>

\* visit_FunctionDef returns: the visit is back in the enclosing function
LeaveFunctionDef ==
    /\ scope # <<>>
    /\ scope' = Front(scope)
    /\ bound' = Front(bound)
    /\ UNCHANGED <<seenStore, seenFuncs, funcs, lastRead, lastCall, visited>>
    /\ UNCHANGED <<lexVars, parseVars, cacheVars, moreVars>>

\* generic_visit of a ListComp [id for id in ..]: the element is visited
\* before the generator that binds its variable
VisitListComp ==
    /\ visited < MaxNodes
    /\ \E id \in StoreNames :
          /\ lastRead' = ReadOf(id, seenStore, seenFuncs, Append(bound, {id}))
          /\ seenStore' = seenStore \cup {id}
    /\ visited' = visited + 1
    /\ UNCHANGED <<seenFuncs, scope, bound, funcs, lastCall>>
    /\ UNCHANGED <<lexVars, parseVars, cacheVars, moreVars>>

\* visit_Expr on Expr(Yield(Call(Name(id), ..))), then visit_Name on the callee
VisitYieldCall ==
    /\ visited < MaxNodes
    /\ \E id \in FuncNames \cup ParamNames :
          LET defined == id \in DOMAIN funcs /\ \E i \in 1..Len(bound) : id \in bound[i]
              joined == id \in seenFuncs
              kind == IF id \in DOMAIN funcs THEN funcs[id] ELSE ""
              value == FuncResult(kind)
          IN /\ lastCall' = [id |-> id, defined |-> defined, kind |-> kind,
                             joined |-> joined,
                             result |-> IF joined THEN StrJoin(value) ELSE value]
             /\ lastRead' = ReadOf(id, seenStore, seenFuncs, bound)
    /\ visited' = visited + 1
    /\ UNCHANGED <<seenStore, seenFuncs, scope, bound, funcs>>
    /\ UNCHANGED <<lexVars, parseVars, cacheVars, moreVars>>

(* ---------------------------------------------------------------------- *)
(* The code cache.  A template includes one file; the template is given  *)
(* as text, or as the name of a file that holds the same text.  The key   *)
(* of a text is its hash; the key of a file is the hash of its name plus  *)
(* its mtime, an int plus a float.                                        *)
(* ---------------------------------------------------------------------- *)
RECURSIVE Pow2Below(_, _)
Pow2Below(v, e) == IF 2 * e > v THEN e ELSE Pow2Below(v, 2 * e)

\* the float nearest to the number v >= 0 (ties to even)
RoundFloat(v) ==
    IF v < 2 ^ MantBits THEN v
    ELSE LET ulp == Pow2Below(v, 1) \div (2 ^ (MantBits - 1))
             q == v \div ulp
             r == v % ulp
         IN IF 2 * r < ulp THEN q * ulp
            ELSE IF 2 * r > ulp THEN (q + 1) * ulp
            ELSE IF q % 2 = 0 THEN q * ulp ELSE (q + 1) * ulp

\* h += m, h an int and m a float
FloatAdd(h, m) == RoundFloat(RoundFloat(h) + m)

\* the hashes a full name and a text can have
FileHashes == {3, 40}
TextHashes == {1, 44}
MainHashes == {5}

Absent == [kind |-> "none", content |-> 0, check |-> 0]
\* compile(head, ..): execute with the included file's statements inlined
\* and the mtime its preamble compares with
Code(inl, chk) == [kind |-> "code", content |-> inl, check |-> chk]
\* the FunctionDef include_ast caches for a file
Fundef(v) == [kind |-> "fundef", content |-> v, check |-> 0]

\* _code_cache.get(h, None)
Get(h) == IF h \in DOMAIN _code_cache THEN _code_cache[h] ELSE Absent
Put(h, e) == [k \in DOMAIN _code_cache \cup {h} |-> IF k = h THEN e ELSE _code_cache[k]]

\* how the caller names the template: text= or filename=
Sources == {"text", "file"}

\* template: h, the key of the source
SourceKey(src) == IF src = "text" THEN thash ELSE FloatAdd(ghash, gmtime)

\* what has been written to the two files so far
Stamp == fcontent + gmtime

\* a template() call: where it is (pc), its source and key, skipCache,
\* whether the compile phase has run (it sets text and filename where the
\* caller left them None), the mtime include_ast read, the exception that
\* ended it.  Its history: the first value pulled from the last generator,
\* whether a ResourceModified was pulled, how many times template called
\* itself, what had been written when the caller called, the output read;
\* whether the call before it rendered the same source with nothing
\* written since that call began, and the output of the call before it.
Idle == [pc |-> "idle", src |-> "text", h |-> 0, skipCache |-> FALSE, both |-> FALSE,
         m |-> 0, err |-> NoErr, first |-> "", marker |-> FALSE, recompiles |-> 0,
         stamp |-> 0, out |-> 0, again |-> FALSE, was |-> 0]

\* the call c read its output to the end
Returned(c) == c.pc = "idle" /\ c.err = NoErr /\ c.first = "None"

\* the end of a call: by an exception, or by the caller reading the output
Ended(c, e) == [c EXCEPT !.pc = "idle", !.h = 0, !.skipCache = FALSE, !.m = 0, !.err = e]

IdleCache ==
    /\ fmtime = 1
    /\ fcontent = 1
    /\ fhash = 3
    /\ thash = 1
    /\ ghash = 5
    /\ gmtime = 1
    /\ _code_cache = [k \in {} |-> Absent]
    /\ call = Idle
    /\ shown = 0
    /\ renders = 0
    /\ atCall = 0
    /\ quiet = TRUE
    /\ doneAt = 0
    /\ between = FALSE

InitCache ==
    /\ fmtime = 1
    /\ fcontent = 1
    /\ fhash \in FileHashes
    /\ thash \in TextHashes
    /\ ghash \in MainHashes
    /\ gmtime = 1
    /\ _code_cache = [k \in {} |-> Absent]
    /\ call = Idle
    /\ shown = 0
    /\ renders = 0
    /\ atCall = 0
    /\ quiet = TRUE
    /\ doneAt = 0
    /\ between = FALSE

\* the caller calls template(text=..) or template(filename=..) without
\* skipCache, and template derives the key of the source
Call ==
    /\ call.pc = "idle" /\ renders < MaxRenders
    /\ \E src \in Sources :
          call' = [Idle EXCEPT !.pc = "lookup", !.src = src, !.h = SourceKey(src),
                               !.stamp = Stamp, !.was = call.out,
                               !.again = (Returned(call) /\ call.src = src
                                          /\ call.stamp = Stamp)]
    /\ atCall' = fcontent
    /\ quiet' = TRUE
    /\ between' = (renders > 0 /\ fcontent > doneAt)
    /\ UNCHANGED <<fmtime, fcontent, fhash, thash, ghash, gmtime, _code_cache, shown,
                   renders, doneAt>>
    /\ UNCHANGED <<lexVars, parseVars, rewriteVars, moreVars>>

\* a template that compiles whatever the cache holds
MissAlways(c) == TRUE

\* template: "if skipCache or _code_cache.get(h, None) is None"
Miss(c) == c.skipCache \/ Get(c.h) = Absent

Lookup ==
    /\ call.pc = "lookup"
    /\ call' = IF Miss(call)
               THEN [call EXCEPT !.pc = "stat", !.both = TRUE]
               ELSE [call EXCEPT !.pc = "exec"]
    /\ UNCHANGED <<fmtime, fcontent, fhash, thash, ghash, gmtime, _code_cache,
                   shown, renders, atCall, quiet, doneAt, between>>
    /\ UNCHANGED <<lexVars, parseVars, rewriteVars, moreVars>>

\* include_ast: m = os.path.getmtime(full_name)
IncludeStat ==
    /\ call.pc = "stat"
    /\ call' = [call EXCEPT !.pc = "read", !.m = fmtime]
    /\ UNCHANGED <<fmtime, fcontent, fhash, thash, ghash, gmtime, _code_cache,
                   shown, renders, atCall, quiet, doneAt, between>>
    /\ UNCHANGED <<lexVars, parseVars, rewriteVars, moreVars>>

\* include_ast: the cache is asked for hash + m, and the file is read and
\* compiled if the cache has nothing under that key
IncludeRead ==
    /\ call.pc = "read"
    /\ LET h == FloatAdd(fhash, call.m)
       IN /\ _code_cache' = IF Get(h) = Absent THEN Put(h, Fundef(fcontent))
                            ELSE _code_cache
          /\ call' = [call EXCEPT !.pc = "compile"]
    /\ UNCHANGED <<fmtime, fcontent, fhash, thash, ghash, gmtime, shown, renders,
                   atCall, quiet, doneAt, between>>
    /\ UNCHANGED <<lexVars, parseVars, rewriteVars, moreVars>>

\* visit_Expr inlines a copy of the cached FunctionDef's body, and template
\* caches the compiled code under the key of the source
Compile ==
    /\ call.pc = "compile"
    /\ LET e == Get(FloatAdd(fhash, call.m))
       IN IF e.kind # "fundef"
          THEN /\ call' = Ended(call, "AttributeError")
               /\ UNCHANGED _code_cache
          ELSE /\ _code_cache' = Put(call.h, Code(e.content, call.m))
               /\ call' = [call EXCEPT !.pc = "exec"]
    /\ UNCHANGED <<fmtime, fcontent, fhash, thash, ghash, gmtime, shown, renders,
                   atCall, quiet, doneAt, between>>
    /\ UNCHANGED <<lexVars, parseVars, rewriteVars, moreVars>>

\* a preamble that compares with >=
ModifiedOrSame(e) == fmtime >= e.check

\* _compareMtime: os.path.getmtime(full_name) > mtime
Modified(e) == fmtime > e.check

\* template calls itself with text=text, filename=filename, skipCache=True:
\* with both set no branch of the key derivation is taken but the last,
\* which raises (NameError, ArgumentError being undefined)
Again(c) == IF c.both THEN Ended(c, "NameError")
            ELSE [c EXCEPT !.pc = "lookup", !.skipCache = TRUE, !.h = SourceKey(c.src),
                           !.recompiles = @ + 1]

\* template: exec, then the first item of the generator: the preamble
\* yields ResourceModified if the file's mtime is greater than the one
\* compiled in, and None otherwise
Exec ==
    /\ call.pc = "exec"
    /\ LET e == Get(call.h)
       IN call' = IF e.kind # "code" THEN Ended(call, "TypeError")
                  ELSE IF Modified(e)
                  THEN Again([call EXCEPT !.first = "ResourceModified", !.marker = TRUE])
                  ELSE [call EXCEPT !.pc = "reading", !.first = "None"]
    /\ UNCHANGED <<fmtime, fcontent, fhash, thash, ghash, gmtime, _code_cache,
                   shown, renders, atCall, quiet, doneAt, between>>
    /\ UNCHANGED <<lexVars, parseVars, rewriteVars, moreVars>>

\* the caller reads the generator to its end
Read ==
    /\ call.pc = "reading"
    /\ shown' = Get(call.h).content
    /\ renders' = renders + 1
    /\ call' = Ended([call EXCEPT !.out = Get(call.h).content], NoErr)
    /\ doneAt' = fcontent
    /\ UNCHANGED <<fmtime, fcontent, fhash, thash, ghash, gmtime, _code_cache,
                   atCall, quiet, between>>
    /\ UNCHANGED <<lexVars, parseVars, rewriteVars, moreVars>>

\* another process writes the included file: its mtime increases
ModifyFile ==
    /\ fmtime < MaxTime
    /\ \E t \in (fmtime + 1)..MaxTime : fmtime' = t
    /\ fcontent' = fcontent + 1
    /\ quiet' = (quiet /\ call.pc = "idle")
    /\ UNCHANGED <<fhash, thash, ghash, gmtime, _code_cache, call, shown, renders,
                   atCall, doneAt, between>>
    /\ UNCHANGED <<lexVars, parseVars, rewriteVars, moreVars>>

\* another process writes the including template's file, the same text
ModifyMain ==
    /\ gmtime < MaxMainTime
    /\ gmtime' = gmtime + 1
    /\ UNCHANGED <<fmtime, fcontent, fhash, thash, ghash, _code_cache, call, shown,
                   renders, atCall, quiet, doneAt, between>>
    /\ UNCHANGED <<lexVars, parseVars, rewriteVars, moreVars>>

(* ---------------------------------------------------------------------- *)
(* File names.  A name is a string over PathChars; the files that exist   *)
(* are given by their place under the working directory.                  *)
(* ---------------------------------------------------------------------- *)
\* os.path.sep
Sep == "/"
DotDot == <<".", ".">>
PathChars == {"a", ".", Sep}
PathStrings == UNION {[1..n -> PathChars] : n \in 0..MaxLen}

\* s.split(os.path.sep)
RECURSIVE SplitFrom(_, _)
SplitFrom(s, cur) ==
    IF s = <<>> THEN <<cur>>
    ELSE IF Head(s) = Sep THEN <<cur>> \o SplitFrom(Tail(s), <<>>)
    ELSE SplitFrom(Tail(s), Append(cur, Head(s)))
split(s) == SplitFrom(s, <<>>)

\* os.path.sep.join(parts)
RECURSIVE SepJoin(_)
SepJoin(parts) ==
    IF parts = <<>> THEN <<>>
    ELSE IF Len(parts) = 1 THEN parts[1]
    ELSE parts[1] \o <<Sep>> \o SepJoin(Tail(parts))

\* a filter that keeps every component
KeepAll(f) == TRUE

\* "if f != '..' and f != ''"
Kept(f) == f # DotDot /\ f # <<>>

\* [f for f in filename.split(os.path.sep) if f != '..' and f != '']
Sanitized(filename) == SelectSeq(split(filename), Kept)

\* the place a relative name leads to: the names below the working
\* directory, and the number of levels above it
Here == [up |-> 0, names |-> <<>>]
Step(loc, c) ==
    IF c = <<>> \/ c = <<".">> THEN loc
    ELSE IF c = DotDot
    THEN (IF loc.names = <<>> THEN [loc EXCEPT !.up = @ + 1]
          ELSE [loc EXCEPT !.names = SubSeq(@, 1, Len(@) - 1)])
    ELSE [loc EXCEPT !.names = Append(@, c)]
RECURSIVE Walk(_, _)
Walk(comps, loc) == IF comps = <<>> THEN loc ELSE Walk(Tail(comps), Step(loc, Head(comps)))
Where(name) == Walk(split(name), Here)

\* the place loc is the base directory or below it
Under(loc, base) ==
    /\ loc.up = base.up
    /\ Len(base.names) <= Len(loc.names)
    /\ SubSeq(loc.names, 1, Len(base.names)) = base.names

\* the places where a file can be: ./a, r/a and b/a
Places == {[up |-> 0, names |-> <<<<"a">>>>], [up |-> 0, names |-> <<<<"r">>, <<"a">>>>],
           [up |-> 0, names |-> <<<<"b">>, <<"a">>>>]}
IsFile(name) == Where(name) \in files

\* template's root: "." unless the caller passes one
Roots == {<<".">>, <<"r">>}
\* the base directories an include names
Bases == {<<"r">>, <<"b">>}

\* an argument of include: a string literal (a Str node with its s), or
\* another expression
Lit(s) == [lit |-> TRUE, s |-> s]
NonLit == [lit |-> FALSE, s |-> <<>>]
NameArgs == {NonLit} \cup {Lit(s) : s \in PathStrings}
BaseArgs == {NonLit} \cup {Lit(s) : s \in Bases}
\* call.args and call.keywords of an include
ArgLists == {<<>>} \cup {<<a>> : a \in NameArgs} \cup {<<a, b>> : a \in NameArgs, b \in BaseArgs}
Keywords == {<<>>} \cup {<<[arg |-> k, value |-> v]>> : k \in {"root", "x"}, v \in BaseArgs}

NoOp == [op |-> "none", root |-> <<>>, filename |-> <<>>, args |-> <<>>, keywords |-> <<>>,
         full_name |-> <<>>, opened |-> <<>>, err |-> NoErr]

IdlePath ==
    /\ files = {}
    /\ resolved = NoOp

InitPath ==
    /\ files \in SUBSET Places
    /\ resolved = NoOp

\* template(filename=.., root=..): the key is derived from full_name and its
\* mtime, and the compile phase opens path + [filename]
TemplateFile(root, filename) ==
    LET path == split(root)
        full_name == SepJoin(path \o Sanitized(filename))
        opened == SepJoin(path \o <<filename>>)
        r == [NoOp EXCEPT !.op = "file", !.root = root, !.filename = filename,
                          !.full_name = full_name]
    IN IF ~IsFile(full_name) THEN [r EXCEPT !.err = "OSError"]
       ELSE IF ~IsFile(opened) THEN [r EXCEPT !.opened = opened, !.err = "IOError"]
       ELSE [r EXCEPT !.opened = opened]

\* include_ast: full_name, and os.path.getmtime(full_name)
include_ast(name, root) ==
    LET full_name == SepJoin(root \o Sanitized(name))
    IN [full_name |-> full_name, err |-> IF IsFile(full_name) THEN NoErr ELSE "OSError"]

\* visit_Expr: the keyword values the loop over call.keywords reads
RootKeywords(kws) == SelectSeq(kws, LAMBDA k : k.arg = "root")

\* visit_Expr, a call to include in a template rendered with root
VisitInclude(root, args, kws) ==
    LET r == [NoOp EXCEPT !.op = "include", !.root = root, !.args = args, !.keywords = kws]
        rk == RootKeywords(kws)
        given == IF Len(args) > 1 THEN <<args[2]>> ELSE [i \in 1..Len(rk) |-> rk[i].value]
        base == IF given = <<>> THEN split(root) ELSE split(given[Len(given)].s)
    IN IF Len(args) < 1 THEN [r EXCEPT !.err = "FormatError"]
       ELSE IF \E i \in 1..Len(given) : ~given[i].lit THEN [r EXCEPT !.err = "AttributeError"]
       ELSE IF ~args[1].lit THEN [r EXCEPT !.err = "AttributeError"]
       ELSE LET got == include_ast(args[1].s, base)
            IN [r EXCEPT !.full_name = got.full_name, !.err = got.err]

\* the caller renders a file (one request is followed from each start)
RenderFile ==
    /\ resolved.op = "none"
    /\ \E root \in Roots, filename \in PathStrings : resolved' = TemplateFile(root, filename)
    /\ UNCHANGED files
    /\ UNCHANGED <<lexVars, parseVars, rewriteVars, cacheVars, stripVars, synthVars, threadVars, laterVars>>

\* the caller renders a text whose only directive is an include
RenderInclude ==
    /\ resolved.op = "none"
    /\ \E root \in Roots, args \in ArgLists, kws \in Keywords :
          resolved' = VisitInclude(root, args, kws)
    /\ UNCHANGED files
    /\ UNCHANGED <<lexVars, parseVars, rewriteVars, cacheVars, stripVars, synthVars, threadVars, laterVars>>

(* ---------------------------------------------------------------------- *)
(* Whitespace stripping.  A literal-text run is a string over RunChars;   *)
(* its statement is in the rendered template, or in the body of an        *)
(* included file, at the top or inside a block.                           *)
(* ---------------------------------------------------------------------- *)
NL == "\n"
TAB == "\t"
SP == " "
RunChars == {NL, TAB, SP, "a"}
Runs == UNION {[1..n -> RunChars] : n \in 0..MaxLen}
RunPlaces == {"template", "included", "included_block"}

\* strip_whitespace from a character on, remove being the flag of the loop
RECURSIVE StripFrom(_, _)
StripFrom(s, remove) ==
    IF s = <<>> THEN <<>>
    ELSE LET c == Head(s)
             set == IF c = NL THEN TRUE ELSE remove
             rem == IF set /\ c \notin {NL, TAB, SP} THEN FALSE ELSE set
         IN (IF rem THEN <<>> ELSE <<c>>) \o StripFrom(Tail(s), rem)

strip_whitespace(s) == StripFrom(s, FALSE)

\* visit_Expr on the Expr(Yield(Str)) of a run: the fragments the statement
\* yields afterwards (none if the statement is dropped)
VisitText(s, strip) ==
    IF strip
    THEN (IF Len(strip_whitespace(s)) = 0 THEN <<>> ELSE <<strip_whitespace(s)>>)
    ELSE <<s>>

\* visit_Expr on an include visits the statements of the inlined body with
\* generic_visit: the Expr at the top of the body is not passed to
\* visit_Expr, the statements inside its blocks are
VisitIncluded(s, strip) == <<s>>

IdleStrip ==
    /\ stripWhitespace = FALSE
    /\ run = <<>>
    /\ place = "template"
    /\ emitted = [visited |-> FALSE, frags |-> <<>>]
    /\ restripped = [done |-> FALSE, s |-> <<>>]

InitStrip ==
    /\ stripWhitespace \in BOOLEAN
    /\ run \in Runs
    /\ place \in RunPlaces
    /\ emitted = [visited |-> FALSE, frags |-> <<>>]
    /\ restripped = [done |-> FALSE, s |-> <<>>]

\* the Transformer reaches the statement of the run
VisitRun ==
    /\ ~emitted.visited
    /\ emitted' = [visited |-> TRUE,
                   frags |-> IF place = "included" THEN VisitIncluded(run, stripWhitespace)
                             ELSE VisitText(run, stripWhitespace)]
    /\ UNCHANGED <<stripWhitespace, run, place, restripped>>
    /\ UNCHANGED <<lexVars, parseVars, rewriteVars, cacheVars, pathVars, synthVars, threadVars, laterVars>>

\* the fragment is a literal-text run of another template rendered with
\* stripWhitespace
StripAgain ==
    /\ emitted.visited /\ emitted.frags # <<>> /\ ~restripped.done
    /\ restripped' = [done |-> TRUE, s |-> strip_whitespace(emitted.frags[1])]
    /\ UNCHANGED <<stripWhitespace, run, place, emitted>>
    /\ UNCHANGED <<lexVars, parseVars, rewriteVars, cacheVars, pathVars, synthVars, threadVars, laterVars>>

(* ---------------------------------------------------------------------- *)
(* synth.  Expressions are strings over SynthChars: none of # . [ = ] is  *)
(* in them, so the machine's target is the tag name or the text buffer.   *)
(* A tree is the sequence of its nodes in the order they were appended,   *)
(* each with its depth (1 for a root): the machine appends a node to the  *)
(* last element it made or to one of that element's ancestors.            *)
(* ---------------------------------------------------------------------- *)
QUOTE == "'"
SynthChars == {"a", SP, ",", "+", QUOTE}
Exprs == UNION {[1..n -> SynthChars] : n \in 0..MaxLen}

\* Node(tagName) and TextNode(text), appended below the element at depth
\* parent (0: parent is None, the node goes to ret)
Element(tag, parent) == [kind |-> "element", name |-> tag, depth |-> parent + 1]
TextNode(t, parent) == [kind |-> "text", name |-> t, depth |-> parent + 1]

\* the machine before the first character
Machine0 == [tagname |-> <<>>, text |-> <<>>, qmode |-> "", target |-> "tagname",
             parent |-> 0, ret |-> <<>>]

\* the body of "for c in expr"
FeedChar(m, c) ==
    IF c = "+" /\ m.target = "tagname"
    THEN [m EXCEPT !.parent = IF @ > 0 THEN @ - 1 ELSE 0]
    ELSE IF c = QUOTE /\ m.target = "tagname"
    THEN [m EXCEPT !.target = "text", !.qmode = c]
    ELSE IF c = m.qmode /\ m.target = "text"
    THEN [m EXCEPT !.ret = Append(@, TextNode(m.text, m.parent)), !.target = "tagname",
                   !.text = <<>>, !.qmode = ""]
    ELSE IF c \in {SP, ","} /\ m.target # "text" /\ Len(m.tagname) > 0
    THEN [m EXCEPT !.ret = Append(@, Element(m.tagname, m.parent)),
                   !.parent = IF c = "," THEN 0 ELSE m.parent + 1,
                   !.tagname = <<>>, !.text = <<>>, !.target = "tagname"]
    ELSE IF m.target = "tagname"
    THEN (IF c # SP THEN [m EXCEPT !.tagname = Append(@, c)] ELSE m)
    ELSE [m EXCEPT !.text = Append(@, c)]

\* after the loop: what is left in the buffers
Flushed(m) ==
    LET r1 == IF Len(m.tagname) > 0 THEN Append(m.ret, Element(m.tagname, m.parent))
              ELSE m.ret
    IN IF Len(m.text) > 0 THEN Append(r1, TextNode(m.text, m.parent)) ELSE r1

\* the loop over the characters of expr, and the flush
Parse(e) ==
    LET F[i \in 0..Len(e)] == IF i = 0 THEN Machine0 ELSE FeedChar(F[i - 1], e[i])
    IN Flushed(F[Len(e)])

\* _synth_cache.get(expr, [])
Cached(e) == IF e \in DOMAIN _synth_cache THEN _synth_cache[e] ELSE <<>>

IdleSynth ==
    /\ expr = <<>>
    /\ _synth_cache = [e \in {} |-> <<>>]
    /\ tree = <<>>
    /\ synthCalls = 0
    /\ parsed = 0

InitSynth ==
    /\ expr \in Exprs
    /\ _synth_cache = [e \in {} |-> <<>>]
    /\ tree = <<>>
    /\ synthCalls = 0
    /\ parsed = 0

\* synth(expr): the cached list if it is not empty, else the parse; no
\* statement of synth stores into _synth_cache
Synth ==
    /\ synthCalls < MaxSynthCalls
    /\ synthCalls' = synthCalls + 1
    /\ IF Len(Cached(expr)) > 0
       THEN tree' = Cached(expr) /\ UNCHANGED parsed
       ELSE tree' = Parse(expr) /\ parsed' = parsed + 1
    /\ UNCHANGED <<expr, _synth_cache>>
    /\ UNCHANGED <<lexVars, parseVars, rewriteVars, cacheVars, pathVars, stripVars, threadVars, laterVars>>

\* the threads of the process that compile no template
IdleThreads == workers = <<>>

\* no source text seen: text belongs in execute's body
NoSpans == [lvl |-> 1, items |-> <<>>]

\* no call yet
NoCall24 == [n |-> 0, stripWhitespace |-> FALSE, root |-> <<>>, skipCache |-> FALSE,
             compiled |-> FALSE, out |-> <<>>]

\* no file spliced
NoSplice == [body |-> <<>>, strip |-> FALSE, done |-> FALSE, included |-> <<>>, inline |-> <<>>]

NoLines == [fed |-> 0, lineno |-> 1, stack |-> <<>>, line |-> 1, at |-> 0, nodes |-> <<>>, done |-> FALSE]
NoShare == [file |-> <<>>, heap |-> [o \in {"cached", "copy"} |-> <<>>], cached |-> FALSE,
            installed |-> <<>>, n |-> 0, started |-> <<>>, body |-> <<>>]
IdleLater == spans = NoSpans /\ optcall = NoCall24 /\ splice = NoSplice /\ lines = NoLines /\ share = NoShare

IdleMore == IdlePath /\ IdleStrip /\ IdleSynth /\ IdleThreads /\ IdleLater

(* ---------------------------------------------------------------------- *)
(* Actions                                                                *)
(* ---------------------------------------------------------------------- *)
PState == [ac |-> ASCEND_COUNT, cursor |-> cursor, bodies |-> bodies, stack |-> stack,
           err |-> err, open |-> open, last |-> last]

SetParser(Q, running) ==
    /\ ASCEND_COUNT' = Q.ac
    /\ cursor' = Q.cursor
    /\ bodies' = Q.bodies
    /\ stack' = Q.stack
    /\ err' = Q.err
    /\ open' = Q.open
    /\ last' = Q.last
    /\ pstate' = IF Q.err # NoErr THEN "error" ELSE running

RECURSIVE SeqsUpTo(_, _)
SeqsUpTo(S, n) ==
    IF n = 0 THEN {<<>>}
    ELSE LET shorter == SeqsUpTo(S, n - 1)
         IN shorter \cup {Append(q, c) : q \in {r \in shorter : Len(r) = n - 1}, c \in S}

InitParser ==
    /\ ASCEND_COUNT = 1
    /\ cursor = <<1>>
    /\ bodies = <<(<<>>)>>
    /\ stack = <<>>
    /\ pstate = "parsing"
    /\ err = NoErr
    /\ output = <<>>
    /\ fed = 0
    /\ open = <<>>
    /\ last = NoLast
    /\ compiles = 1

\* template(text=t): the source is any text over the alphabet
InitLex ==
    /\ text \in SeqsUpTo(Alphabet, MaxLen)
    /\ start = 0
    /\ chunks = <<>>
    /\ lexerr = NoErr
    /\ eof = FALSE
    /\ InitParser
    /\ InitTransformer
    /\ IdleCache
    /\ IdleMore

\* gen_ast asks gen_chunks for its next chunks
Pull ==
    /\ pstate = "parsing" /\ chunks = <<>> /\ lexerr = NoErr /\ ~eof
    /\ LET r == gen_chunks(text, start)
       IN /\ chunks' = r.chunks
          /\ start' = r.start
          /\ eof' = r.eof
          /\ lexerr' = r.err
    /\ UNCHANGED <<text, parseVars>>
    /\ UNCHANGED <<rewriteVars, cacheVars, moreVars>>

\* gen_ast and compile_ast process the next chunk
Consume ==
    /\ pstate = "parsing" /\ chunks # <<>>
    /\ SetParser(Nest(PState, ParseChunk(PState, Head(chunks)), Head(chunks)), "parsing")
    /\ chunks' = Tail(chunks)
    /\ fed' = fed + 1
    /\ UNCHANGED <<text, start, lexerr, eof, output, compiles>>
    /\ UNCHANGED <<rewriteVars, cacheVars, moreVars>>

\* the exception gen_chunks raised ends the compile
LexRaise ==
    /\ pstate = "parsing" /\ chunks = <<>> /\ lexerr # NoErr
    /\ pstate' = "error"
    /\ err' = lexerr
    /\ UNCHANGED <<lexVars, ASCEND_COUNT, cursor, bodies, stack, output, fed, open, last, compiles>>
    /\ UNCHANGED <<rewriteVars, cacheVars, moreVars>>

\* the source is exhausted: gen_ast yields the remaining text, compile_ast transforms
EndOfText ==
    /\ pstate = "parsing" /\ chunks = <<>> /\ lexerr = NoErr /\ eof
    /\ SetParser([FinishParse(PState) EXCEPT !.last = [NoLast EXCEPT !.what = "end"]], "done")
    /\ UNCHANGED <<lexVars, output, fed, compiles>>
    /\ UNCHANGED <<rewriteVars, cacheVars, moreVars>>

\* template() runs execute and the caller reads the stream to its end
Render ==
    /\ pstate = "done"
    /\ \E truth \in SUBSET CondBodies(bodies) :
          LET r == RenderStmts(bodies, bodies[1], truth)
          IN /\ output' = r.out
             /\ err' = r.err
    /\ pstate' = "rendered"
    /\ UNCHANGED <<lexVars, ASCEND_COUNT, cursor, bodies, stack, fed, open, last, compiles>>
    /\ UNCHANGED <<rewriteVars, cacheVars, moreVars>>

NextLex == Pull \/ Consume \/ LexRaise \/ EndOfText \/ Render

SpecLex == InitLex /\ [][NextLex]_vars

(* ---------------------------------------------------------------------- *)
(* list(gen_chunks(text)) for every text of at most MaxScanLen characters *)
(* over marks, parentheses, a flag character and a conversion letter.     *)
(* ---------------------------------------------------------------------- *)
ScanAlphabet == {OPEN_MARK, OPEN_PAREN, CLOSE_PAREN, "0", "d"}

InitScan ==
    /\ text \in UNION {[1..n -> ScanAlphabet] : n \in 0..MaxScanLen}
    /\ start = 0
    /\ chunks = <<>>
    /\ lexerr = NoErr
    /\ eof = FALSE
    /\ InitParser
    /\ InitTransformer
    /\ IdleCache
    /\ IdleMore

\* one iteration of gen_chunks' loop: chunks holds what it yielded
Scan ==
    /\ ~eof /\ lexerr = NoErr
    /\ LET r == gen_chunks(text, start)
       IN /\ chunks' = r.chunks
          /\ start' = r.start
          /\ eof' = r.eof
          /\ lexerr' = r.err
    /\ UNCHANGED <<text, parseVars>>
    /\ UNCHANGED <<rewriteVars, cacheVars, moreVars>>

NextScan == Scan

SpecScan == InitScan /\ [][NextScan]_vars

(* ---------------------------------------------------------------------- *)
(* The parser fed chunk by chunk: every chunk stream of at most MaxChunks *)
(* chunks, and compiles that follow one another in one process.           *)
(* ---------------------------------------------------------------------- *)
HeaderChunk(h) == Chunk(<<OPEN_PAREN, h, ":", CLOSE_PAREN>>, None)
ExprChunk(name, ty) == Chunk(<<OPEN_PAREN, name, CLOSE_PAREN>>, ty)

ChunkSet ==
    {Chunk(<<"T">>, None), Chunk(<<CLOSE_MARK>>, None)}
    \cup {HeaderChunk(h) : h \in {"if", "for", "def", "elif", "else"}}
    \cup {ExprChunk("x", None), ExprChunk("x", <<"q">>), ExprChunk("n", <<"d">>)}

InitParse ==
    /\ text = <<>>
    /\ start = 0
    /\ chunks = <<>>
    /\ lexerr = NoErr
    /\ eof = FALSE
    /\ InitParser
    /\ InitTransformer
    /\ IdleCache
    /\ IdleMore

\* gen_ast and compile_ast process the next chunk of the stream
Feed ==
    /\ pstate = "parsing" /\ fed < MaxChunks
    /\ \E c \in ChunkSet : SetParser(Nest(PState, ParseChunk(PState, c), c), "parsing")
    /\ fed' = fed + 1
    /\ UNCHANGED <<lexVars, output, compiles>>
    /\ UNCHANGED <<rewriteVars, cacheVars, moreVars>>

\* the chunk stream ends
EndOfSource ==
    /\ pstate = "parsing"
    /\ SetParser([FinishParse(PState) EXCEPT !.last = [NoLast EXCEPT !.what = "end"]], "done")
    /\ UNCHANGED <<lexVars, output, fed, compiles>>
    /\ UNCHANGED <<rewriteVars, cacheVars, moreVars>>

\* the next compile of the process: compile_ast starts with a new tree and
\* cursor; ASCEND_COUNT is a module global and keeps its value
NewCompile ==
    /\ pstate \in {"done", "error"} /\ compiles < MaxCompiles
    /\ compiles' = compiles + 1
    /\ cursor' = <<1>>
    /\ bodies' = <<(<<>>)>>
    /\ stack' = <<>>
    /\ pstate' = "parsing"
    /\ err' = NoErr
    /\ output' = <<>>
    /\ fed' = 0
    /\ open' = <<>>
    /\ last' = NoLast
    /\ UNCHANGED <<lexVars, ASCEND_COUNT>>
    /\ UNCHANGED <<rewriteVars, cacheVars, moreVars>>

NextParse == Feed \/ EndOfSource \/ NewCompile

SpecParse == InitParse /\ [][NextParse]_vars

(* ---------------------------------------------------------------------- *)
(* The parser fed chunks whose directives carry the text gen_chunks took  *)
(* for a conversion specifier.  Beside the parser the history keeps, per  *)
(* statement list, what the source puts there: text, or a statement (#).  *)
(* ---------------------------------------------------------------------- *)
Mark == <<"#">>

\* the chunks of gen_chunks for "T", "%/", "%(if c:)", "%(elif c:)",
\* "%(else:)" and "%()" followed or not by "d", and for "%(n)d"
SpanChunks ==
    {Chunk(<<"T">>, None), Chunk(<<CLOSE_MARK>>, None), ExprChunk("n", <<"d">>),
     Chunk(<<OPEN_PAREN, CLOSE_PAREN>>, <<"d">>)}
    \cup {Chunk(<<OPEN_PAREN, h, ":", CLOSE_PAREN>>, ty) :
             h \in {"if", "elif", "else"}, ty \in {None, <<"d">>}}

\* the history after chunk c took the parser from P to Q: a header and an
\* expression are statements of the list the text was in, an elif is a
\* statement of the orelse of the open block; text stays in the list, and
\* the specifier text of a directive with no value follows the directive,
\* in the list the directive leads to
Noted(sp, P, Q, c) ==
    LET kind == ChunkKind(c)
        n == Len(P.open)
        lvl2 == IF kind \in {"header", "elif", "else", "close"} THEN Q.last.want ELSE sp.lvl
        node == IF kind \in {"header", "expr"} THEN <<[list |-> sp.lvl, s |-> Mark]>>
                ELSE IF kind = "elif" /\ n > 0
                THEN <<[list |-> P.open[n].orelse, s |-> Mark]>>
                ELSE <<>>
        txt == IF kind = "text" THEN <<[list |-> sp.lvl, s |-> c.payload]>>
               ELSE IF c.type # None /\ kind # "expr" THEN <<[list |-> lvl2, s |-> c.type]>>
               ELSE <<>>
    IN [lvl |-> lvl2, items |-> sp.items \o node \o txt]

\* gen_ast and compile_ast process the next chunk of the stream
FeedSpan ==
    /\ pstate = "parsing" /\ fed < MaxChunks
    /\ \E c \in SpanChunks :
          LET Q == Nest(PState, ParseChunk(PState, c), c)
          IN /\ SetParser(Q, "parsing")
             /\ spans' = Noted(spans, PState, Q, c)
    /\ fed' = fed + 1
    /\ UNCHANGED <<lexVars, output, compiles>>
    /\ UNCHANGED <<rewriteVars, cacheVars, olderVars, optVars, spliceVars, lineVars, shareVars>>

NextSpans == FeedSpan \/ EndOfSource

SpecSpans == InitParse /\ [][NextSpans]_vars

(* ---------------------------------------------------------------------- *)
(* The Transformer over the nodes of a template of at most MaxNodes nodes *)
(* ---------------------------------------------------------------------- *)
InitRewrite ==
    /\ text = <<>>
    /\ start = 0
    /\ chunks = <<>>
    /\ lexerr = NoErr
    /\ eof = FALSE
    /\ InitParser
    /\ InitTransformer
    /\ IdleCache
    /\ IdleMore

NextRewrite ==
    \/ VisitLoad \/ VisitStore \/ VisitImport \/ VisitFunctionDef
    \/ LeaveFunctionDef \/ VisitListComp \/ VisitYieldCall

SpecRewrite == InitRewrite /\ [][NextRewrite]_vars

(* ---------------------------------------------------------------------- *)
(* Renders of a text template that includes a file another process writes *)
(* ---------------------------------------------------------------------- *)
InitRenders ==
    /\ text = <<>>
    /\ start = 0
    /\ chunks = <<>>
    /\ lexerr = NoErr
    /\ eof = FALSE
    /\ InitParser
    /\ InitTransformer
    /\ InitCache
    /\ IdleMore

NextCache ==
    \/ Call \/ Lookup \/ IncludeStat \/ IncludeRead \/ Compile \/ Exec \/ Read
    \/ ModifyFile \/ ModifyMain

SpecCache == InitRenders /\ [][NextCache]_vars

(* ---------------------------------------------------------------------- *)
(* The included file is also rendered by itself, template(filename=F),    *)
(* between the renders of the text that includes it.  The hashes are      *)
(* small: no two of the keys are equal unless they are keys of one file.  *)
(* ---------------------------------------------------------------------- *)
InitBoth ==
    /\ text = <<>>
    /\ start = 0
    /\ chunks = <<>>
    /\ lexerr = NoErr
    /\ eof = FALSE
    /\ InitParser
    /\ InitTransformer
    /\ fmtime = 1
    /\ fcontent = 1
    /\ fhash = 3
    /\ thash = 1
    /\ ghash = 9
    /\ gmtime = 1
    /\ _code_cache = [k \in {} |-> Absent]
    /\ call = Idle
    /\ shown = 0
    /\ renders = 0
    /\ atCall = 0
    /\ quiet = TRUE
    /\ doneAt = 0
    /\ between = FALSE
    /\ IdleMore

\* template(filename=F) for the file the text includes, F holding no
\* include: the key is the hash of F's full name plus its mtime, the key
\* include_ast derives for F; on a miss F is compiled and the code is put
\* under the key; the entry under the key is executed and the caller
\* reads the output
RenderIncluded ==
    /\ call.pc = "idle" /\ renders < MaxRenders
    /\ LET h == FloatAdd(fhash, fmtime)
           c == [Idle EXCEPT !.src = "inc", !.stamp = Stamp, !.was = call.out]
           miss == Miss([c EXCEPT !.h = h])
           cache == IF miss THEN Put(h, Code(fcontent, fmtime)) ELSE _code_cache
           e == cache[h]
       IN /\ _code_cache' = cache
          /\ IF e.kind # "code"
             THEN /\ call' = Ended(c, "TypeError")
                  /\ UNCHANGED <<shown, renders, doneAt>>
             ELSE /\ call' = Ended([c EXCEPT !.both = miss, !.first = "None",
                                             !.out = e.content], NoErr)
                  /\ shown' = e.content
                  /\ renders' = renders + 1
                  /\ doneAt' = fcontent
    /\ atCall' = fcontent
    /\ quiet' = TRUE
    /\ between' = (renders > 0 /\ fcontent > doneAt)
    /\ UNCHANGED <<fmtime, fcontent, fhash, thash, ghash, gmtime>>
    /\ UNCHANGED <<lexVars, parseVars, rewriteVars, moreVars>>

NextBoth ==
    \/ RenderIncluded
    \/ Call \/ Lookup \/ IncludeStat \/ IncludeRead \/ Compile \/ Exec \/ Read
    \/ ModifyFile

SpecBoth == InitBoth /\ [][NextBoth]_vars

(* ---------------------------------------------------------------------- *)
(* File names resolved by template and by include, for every name of at   *)
(* most MaxLen characters and every set of files                          *)
(* ---------------------------------------------------------------------- *)
InitPaths ==
    /\ text = <<>>
    /\ start = 0
    /\ chunks = <<>>
    /\ lexerr = NoErr
    /\ eof = FALSE
    /\ InitParser
    /\ InitTransformer
    /\ IdleCache
    /\ InitPath
    /\ IdleStrip
    /\ IdleSynth
    /\ IdleThreads
    /\ IdleLater

NextPath == RenderFile \/ RenderInclude

SpecPath == InitPaths /\ [][NextPath]_vars

(* ---------------------------------------------------------------------- *)
(* The Transformer on one literal-text run, for every run of at most      *)
(* MaxLen characters                                                      *)
(* ---------------------------------------------------------------------- *)
InitRuns ==
    /\ text = <<>>
    /\ start = 0
    /\ chunks = <<>>
    /\ lexerr = NoErr
    /\ eof = FALSE
    /\ InitParser
    /\ InitTransformer
    /\ IdleCache
    /\ IdlePath
    /\ InitStrip
    /\ IdleSynth
    /\ IdleThreads
    /\ IdleLater

NextStrip == VisitRun \/ StripAgain

SpecStrip == InitRuns /\ [][NextStrip]_vars

(* ---------------------------------------------------------------------- *)
(* Calls of synth, for every expression of at most MaxLen characters      *)
(* ---------------------------------------------------------------------- *)
InitExprs ==
    /\ text = <<>>
    /\ start = 0
    /\ chunks = <<>>
    /\ lexerr = NoErr
    /\ eof = FALSE
    /\ InitParser
    /\ InitTransformer
    /\ IdleCache
    /\ IdlePath
    /\ IdleStrip
    /\ InitSynth
    /\ IdleThreads
    /\ IdleLater

NextSynth == Synth

SpecSynth == InitExprs /\ [][NextSynth]_vars

(* ---------------------------------------------------------------------- *)
(* Two threads of one process that compile a template each.  A thread     *)
(* can be switched between any two chunks; ASCEND_COUNT is the module     *)
(* global, the tree and the cursor are locals of each compile_ast.        *)
(* ---------------------------------------------------------------------- *)
Threads == {1, 2}

\* compile_ast's locals before the first chunk
Fresh == [ac |-> 1, cursor |-> <<1>>, bodies |-> <<(<<>>)>>, stack |-> <<>>, err |-> NoErr,
          open |-> <<>>, last |-> NoLast]

\* the templates the threads compile: T, if..T, and if..elif..T, with and
\* without text after the close
ThreadTemplates ==
    LET t == Chunk(<<"T">>, None)
        close == Chunk(<<CLOSE_MARK>>, None)
    IN {<<t>>,
        <<HeaderChunk("if"), t, close>>,
        <<HeaderChunk("if"), t, close, t>>,
        <<HeaderChunk("if"), t, HeaderChunk("elif"), t, close, t>>}

Worker(tpl) == [tpl |-> tpl, at |-> 1, P |-> Fresh, done |-> FALSE]

\* compile_ast run on a chunk stream with no other thread
RECURSIVE CompileFrom(_, _)
CompileFrom(P, cs) ==
    IF P.err # NoErr THEN P
    ELSE IF cs = <<>> THEN FinishParse(P)
    ELSE CompileFrom(ParseChunk(P, Head(cs)), Tail(cs))

\* the tree, or the exception
IR(P) == [bodies |-> P.bodies, err |-> P.err]

InitThreads ==
    /\ text = <<>>
    /\ start = 0
    /\ chunks = <<>>
    /\ lexerr = NoErr
    /\ eof = FALSE
    /\ InitParser
    /\ InitTransformer
    /\ IdleCache
    /\ IdlePath
    /\ IdleStrip
    /\ IdleSynth
    /\ workers \in [Threads -> {Worker(tpl) : tpl \in ThreadTemplates}]
    /\ IdleLater

\* thread t runs gen_ast and compile_ast on its next chunk, reading and
\* writing the global ASCEND_COUNT
ThreadFeed(t) ==
    LET w == workers[t]
        Q == ParseChunk([w.P EXCEPT !.ac = ASCEND_COUNT], w.tpl[w.at])
    IN /\ ~w.done /\ w.at <= Len(w.tpl)
       /\ ASCEND_COUNT' = Q.ac
       /\ workers' = [workers EXCEPT ![t] = [w EXCEPT !.P = Q, !.at = @ + 1,
                                                      !.done = Q.err # NoErr]]

\* thread t has read its last chunk
ThreadEnd(t) ==
    LET w == workers[t]
        Q == FinishParse([w.P EXCEPT !.ac = ASCEND_COUNT])
    IN /\ ~w.done /\ w.at > Len(w.tpl)
       /\ ASCEND_COUNT' = Q.ac
       /\ workers' = [workers EXCEPT ![t] = [w EXCEPT !.P = Q, !.done = TRUE]]

ThreadStep ==
    /\ \E t \in Threads : ThreadFeed(t)
    /\ UNCHANGED <<lexVars, cursor, bodies, stack, pstate, err, output, fed, open, last,
                   compiles>>
    /\ UNCHANGED <<rewriteVars, cacheVars, pathVars, stripVars, synthVars, laterVars>>

ThreadFinish ==
    /\ \E t \in Threads : ThreadEnd(t)
    /\ UNCHANGED <<lexVars, cursor, bodies, stack, pstate, err, output, fed, open, last,
                   compiles>>
    /\ UNCHANGED <<rewriteVars, cacheVars, pathVars, stripVars, synthVars, laterVars>>

NextThreads == ThreadStep \/ ThreadFinish

SpecThreads == InitThreads /\ [][NextThreads]_vars

(* ---------------------------------------------------------------------- *)
(* Calls of template(text=..) that differ in their options.  The text is  *)
(* a literal-text run followed by %(include('a')); a file a exists in the *)
(* working directory and in r, and no file is written.                    *)
(* ---------------------------------------------------------------------- *)
\* what execute yields once compile_ast has compiled the text with the
\* options: the run as the Transformer leaves it, and the content of the
\* file the include resolves to (a file's content is told by its name)
Execute(s, strip, root) ==
    VisitText(s, strip) \o <<VisitInclude(root, <<Lit(<<"a">>)>>, <<>>).full_name>>

InitOptions ==
    /\ text = <<>>
    /\ start = 0
    /\ chunks = <<>>
    /\ lexerr = NoErr
    /\ eof = FALSE
    /\ InitParser
    /\ InitTransformer
    /\ IdleCache
    /\ files = {Where(<<"a">>), Where(<<"r", Sep, "a">>)}
    /\ resolved = NoOp
    /\ stripWhitespace = FALSE
    /\ run \in Runs \ {<<>>}
    /\ place = "template"
    /\ emitted = [visited |-> FALSE, frags |-> <<>>]
    /\ restripped = [done |-> FALSE, s |-> <<>>]
    /\ IdleSynth
    /\ IdleThreads
    /\ spans = NoSpans
    /\ optcall = NoCall24
    /\ splice = NoSplice
    /\ lines = NoLines
    /\ share = NoShare

\* template(text=run .., stripWhitespace=.., root=.., skipCache=..): the key
\* is the hash of the text; the text is compiled with the options of this
\* call if skipCache is set or the cache has nothing under the key, and
\* the code under the key is executed
RenderText ==
    /\ optcall.n < MaxRenders
    /\ \E strip \in BOOLEAN, root \in Roots, skip \in BOOLEAN :
          LET h == thash
              miss == Miss([skipCache |-> skip, h |-> h])
              code == IF miss THEN Code(Execute(run, strip, root), fmtime) ELSE Get(h)
          IN /\ _code_cache' = IF miss THEN Put(h, code) ELSE _code_cache
             /\ optcall' = [n |-> optcall.n + 1, stripWhitespace |-> strip, root |-> root,
                            skipCache |-> skip, compiled |-> miss, out |-> code.content]
    /\ UNCHANGED <<fmtime, fcontent, fhash, thash, ghash, gmtime, call, shown, renders,
                   atCall, quiet, doneAt, between>>
    /\ UNCHANGED <<lexVars, parseVars, rewriteVars, olderVars, spanVars, spliceVars, lineVars, shareVars>>

NextOptions == RenderText

SpecOptions == InitOptions /\ [][NextOptions]_vars

(* ---------------------------------------------------------------------- *)
(* The Transformer on the statements of an included file F.  A statement  *)
(* of F is a literal text, %(x), the definition of a macro f, %(f()) or   *)
(* %(include('G')), at F's top level or in the body of an if at F's top   *)
(* level.  What the Transformer makes of a statement is told by tags.     *)
(* ---------------------------------------------------------------------- *)
SpliceKinds == {"text", "name", "def", "call", "include"}
SpliceStmts == [kind : SpliceKinds, top : BOOLEAN]
SpliceBodies == {<<>>} \cup {<<a>> : a \in SpliceStmts}
                \cup {<<a, b>> : a \in SpliceStmts, b \in SpliceStmts}

\* the literal text of F
SpliceRun == <<NL, SP, "a">>

\* the Transformer before F: nothing stored but the reserved names
Transformer0 == [seenStore |-> ReservedNames, seenFuncs |-> {}, res |-> <<>>]

\* visit_Name on the Load of id
visit_Name(T, id) ==
    IF Rewrites(id, T.seenStore, T.seenFuncs) THEN <<"args", id>> ELSE <<id>>

\* self.visit(statement): visit_Expr or visit_FunctionDef, each of which
\* ends with generic_visit
Visit(T, st, strip) ==
    IF st.kind = "text" THEN [T EXCEPT !.res = Append(@, VisitText(SpliceRun, strip))]
    ELSE IF st.kind = "include" THEN [T EXCEPT !.res = Append(@, <<(<<"G">>)>>)]
    ELSE IF st.kind = "def" THEN [T EXCEPT !.seenFuncs = @ \cup {"f"}, !.res = Append(@, <<>>)]
    ELSE IF st.kind = "call"
    THEN [T EXCEPT !.res = Append(@, <<IF "f" \in T.seenFuncs THEN <<"join">> ELSE <<"plain">>,
                                       visit_Name(T, "f")>>)]
    ELSE [T EXCEPT !.res = Append(@, <<visit_Name(T, "x")>>)]

\* self.generic_visit(statement): the children of the statement are
\* visited, visit_Expr and visit_FunctionDef are not called for it
GenericVisit(T, st, strip) ==
    IF st.kind = "text" THEN [T EXCEPT !.res = Append(@, <<SpliceRun>>)]
    ELSE IF st.kind = "include" THEN [T EXCEPT !.res = Append(@, <<visit_Name(T, "include")>>)]
    ELSE IF st.kind = "def" THEN [T EXCEPT !.res = Append(@, <<>>)]
    ELSE IF st.kind = "call" THEN [T EXCEPT !.res = Append(@, <<(<<"plain">>), visit_Name(T, "f")>>)]
    ELSE [T EXCEPT !.res = Append(@, <<visit_Name(T, "x")>>)]

\* visit_Expr on include: "for expr in fundef.body: self.generic_visit(expr)";
\* a statement in the body of an if is a child of the if
RECURSIVE VisitSpliced(_, _, _)
VisitSpliced(T, body, strip) ==
    IF body = <<>> THEN T
    ELSE VisitSpliced(IF Head(body).top THEN GenericVisit(T, Head(body), strip)
                      ELSE Visit(T, Head(body), strip),
                      Tail(body), strip)

\* generic_visit of execute's body: every statement is visited
RECURSIVE VisitInline(_, _, _)
VisitInline(T, body, strip) ==
    IF body = <<>> THEN T
    ELSE VisitInline(Visit(T, Head(body), strip), Tail(body), strip)

InitSplice ==
    /\ text = <<>>
    /\ start = 0
    /\ chunks = <<>>
    /\ lexerr = NoErr
    /\ eof = FALSE
    /\ InitParser
    /\ InitTransformer
    /\ IdleCache
    /\ IdlePath /\ IdleStrip /\ IdleSynth /\ IdleThreads
    /\ spans = NoSpans
    /\ optcall = NoCall24
    /\ lines = NoLines
    /\ share = NoShare
    /\ splice \in {[NoSplice EXCEPT !.body = b, !.strip = st] :
                       b \in SpliceBodies, st \in BOOLEAN}

\* a template whose only directive is %(include('F')) is compiled, and so
\* is the template that holds F's text instead
Splice ==
    /\ ~splice.done
    /\ splice' = [splice EXCEPT !.done = TRUE,
                     !.included = VisitSpliced(Transformer0, splice.body, splice.strip).res,
                     !.inline = VisitInline(Transformer0, splice.body, splice.strip).res]
    /\ UNCHANGED <<lexVars, parseVars, rewriteVars, cacheVars, olderVars, spanVars, optVars, lineVars, shareVars>>

NextSplice == Splice

SpecSplice == InitSplice /\ [][NextSplice]_vars

(* ---------------------------------------------------------------------- *)
(* Line numbers.  gen_ast is fed at most MaxLineChunks chunks: literal    *)
(* text, expression directives whose payload is on one line or on two,    *)
(* and close marks.  A chunk is given by its kind and the characters      *)
(* between its delimiters.                                                *)
(* ---------------------------------------------------------------------- *)
CR == "\r"
LineTexts == {<<"x">>, <<NL>>, <<"x", NL>>, <<NL, NL>>, <<CR, NL>>}
LinePayloads == {<<"x">>, <<"x", NL, "x">>}
LineChunks ==
    {[k |-> "text", s |-> t] : t \in LineTexts}
        \cup {[k |-> "expr", s |-> t] : t \in LinePayloads}
        \cup {[k |-> "close", s |-> <<>>]}

Occurs(t, ch) == Cardinality({i \in 1..Len(t) : t[i] = ch})

\* linecount(t)
linecount(t) == IF Occurs(t, CR) > Occurs(t, NL) THEN Occurs(t, CR) ELSE Occurs(t, NL)

\* ''.join(stack)
RECURSIVE JoinStack(_)
JoinStack(st) == IF st = <<>> THEN <<>> ELSE Head(st) \o JoinStack(Tail(st))

InitLines ==
    /\ text = <<>>
    /\ start = 0
    /\ chunks = <<>>
    /\ lexerr = NoErr
    /\ eof = FALSE
    /\ InitParser
    /\ InitTransformer
    /\ IdleCache
    /\ IdleMore

\* locate(n): the node takes gen_ast's lineno; begins is the line of the
\* template on which the node's first chunk begins
Located(kind, begins) == [k |-> kind, lineno |-> lines.lineno, begins |-> begins]

\* one iteration of gen_ast's loop, for the chunk c
FeedLine ==
    /\ ~lines.done
    /\ lines.fed < MaxLineChunks
    /\ \E c \in LineChunks :
         LET after == lines.line + Occurs(c.s, NL)
             flushed == IF lines.stack = <<>> THEN <<>> ELSE <<Located("text", lines.at)>>
             counted == lines.lineno + linecount(JoinStack(lines.stack))
         IN IF c.k = "text"
            THEN lines' = [lines EXCEPT !.fed = @ + 1,
                              !.stack = Append(@, c.s),
                              !.at = IF lines.stack = <<>> THEN lines.line ELSE @,
                              !.line = after]
            ELSE lines' = [lines EXCEPT !.fed = @ + 1,
                              !.stack = <<>>,
                              !.at = 0,
                              !.lineno = counted,
                              !.line = after,
                              !.nodes = @ \o flushed \o
                                  (IF c.k = "expr"
                                   THEN <<[k |-> "expr", lineno |-> counted, begins |-> lines.line]>>
                                   ELSE <<>>)]
    /\ UNCHANGED <<lexVars, parseVars, rewriteVars, cacheVars, olderVars, spanVars, optVars, spliceVars, shareVars>>

\* the chunks are exhausted: the text still stacked is yielded
EndOfChunks ==
    /\ ~lines.done
    /\ lines' = [lines EXCEPT !.done = TRUE,
                    !.stack = <<>>,
                    !.nodes = @ \o (IF lines.stack = <<>> THEN <<>>
                                    ELSE <<Located("text", lines.at)>>)]
    /\ UNCHANGED <<lexVars, parseVars, rewriteVars, cacheVars, olderVars, spanVars, optVars, spliceVars, shareVars>>

NextLines == FeedLine \/ EndOfChunks

SpecLines == InitLines /\ [][NextLines]_vars

(* ---------------------------------------------------------------------- *)
(* The IR of an included file F in _code_cache.  A statement of F is      *)
(* literal text or the expression x, at the top of F or in the body of an *)
(* if; the objects of the heap are the function definition the cache      *)
(* holds and the one the Transformer works on.  F is not written.         *)
(* ---------------------------------------------------------------------- *)
BlankRun == <<NL, SP>>
SharedStmts ==
    {[k |-> "text", top |-> t, y |-> TRUE, s |-> r, v |-> <<>>] :
         t \in BOOLEAN, r \in {SpliceRun, BlankRun}}
      \cup {[k |-> "expr", top |-> FALSE, y |-> b, s |-> <<>>, v |-> <<"x">>] : b \in BOOLEAN}
      \cup {[k |-> "expr", top |-> TRUE, y |-> FALSE, s |-> <<>>, v |-> <<"x">>]}

\* compile_ast(f.read(), transform=False).body[0], for the texts of F
SharedFiles == {<<a>> : a \in SharedStmts} \cup {<<a, b>> : a \in SharedStmts, b \in SharedStmts}

\* the object itself instead of a copy of it
SameObject(hp, ref) == [heap |-> hp, ref |-> ref]

\* copy.deepcopy(fundef): a new object with the contents of the old one
deepcopy(hp, ref) == [heap |-> [hp EXCEPT !["copy"] = hp[ref]], ref |-> "copy"]

\* visit_Name on the value of an expression statement
VisitValue(T, v) == IF v = <<"x">> THEN visit_Name(T, "x") ELSE v

\* what "_yieldall(fundef.body)" and "self.generic_visit(expr)" leave of a
\* statement of the function definition: the statement at the top is
\* wrapped and its children are visited, the statement in the body of an
\* if is visited by visit_Expr
VisitShared(T, st, strip) ==
    IF st.top
    THEN (IF st.k = "text" THEN <<st>>
          ELSE <<[YieldOne(st) EXCEPT !.v = VisitValue(T, @)]>>)
    ELSE (IF st.k = "text"
          THEN (IF ~strip THEN <<st>>
                ELSE IF Len(strip_whitespace(st.s)) = 0 THEN <<>>
                ELSE <<[st EXCEPT !.s = strip_whitespace(@)]>>)
          ELSE <<[st EXCEPT !.v = VisitValue(T, @)]>>)

RECURSIVE VisitSharedBody(_, _, _)
VisitSharedBody(T, body, strip) ==
    IF body = <<>> THEN <<>>
    ELSE VisitShared(T, Head(body), strip) \o VisitSharedBody(T, Tail(body), strip)

InitShare ==
    /\ text = <<>>
    /\ start = 0
    /\ chunks = <<>>
    /\ lexerr = NoErr
    /\ eof = FALSE
    /\ InitParser
    /\ InitTransformer
    /\ IdleCache
    /\ IdlePath /\ IdleStrip /\ IdleSynth /\ IdleThreads
    /\ spans = NoSpans
    /\ optcall = NoCall24
    /\ splice = NoSplice
    /\ lines = NoLines
    /\ share \in {[NoShare EXCEPT !.file = f] : f \in SharedFiles}

\* visit_Expr on %(include('F')) in a template compiled with the option
\* strip, in which x is stored before the include or is not: include_ast
\* compiles F if the cache has no entry, the Transformer takes a copy of
\* the entry, wraps and visits its statements and returns them
IncludeShared ==
    /\ share.n < MaxIncluders
    /\ \E strip \in BOOLEAN, stored \in BOOLEAN :
         LET hp == IF share.cached THEN share.heap
                   ELSE [share.heap EXCEPT !["cached"] = share.file]
             T == [Transformer0 EXCEPT !.seenStore = @ \cup (IF stored THEN {"x"} ELSE {})]
             c == deepcopy(hp, "cached")
             made == VisitSharedBody(T, c.heap[c.ref], strip)
         IN share' = [share EXCEPT !.cached = TRUE,
                         !.installed = IF share.cached THEN @ ELSE share.file,
                         !.n = @ + 1,
                         !.started = hp["cached"],
                         !.heap = [c.heap EXCEPT ![c.ref] = made],
                         !.body = made]
    /\ UNCHANGED <<lexVars, parseVars, rewriteVars, cacheVars, olderVars, spanVars, optVars, spliceVars, lineVars>>

NextShare == IncludeShared

SpecShare == InitShare /\ [][NextShare]_vars

(* ---------------------------------------------------------------------- *)
(* Properties of rendering a text (SpecLex)                               *)
(* ---------------------------------------------------------------------- *)
\* a text with no directive: no mark followed by "(" or by "/"
NoDirective(t) ==
    \A i \in 1..Len(t) :
        t[i] = OPEN_MARK => (i < Len(t) => t[i + 1] \notin {OPEN_PAREN, CLOSE_MARK})

HasPercentPair(t) == \E i \in 1..(Len(t) - 1) : t[i] = OPEN_MARK /\ t[i + 1] = OPEN_MARK

PlainStart(t) == t # <<>> /\ t[1] \notin {OPEN_PAREN, CLOSE_MARK}

\* the text with every "%%" read left to right replaced by one "%"
RECURSIVE Collapse(_)
Collapse(t) ==
    IF Len(t) < 2 THEN t
    ELSE IF t[1] = OPEN_MARK /\ t[2] = OPEN_MARK
    THEN <<OPEN_MARK>> \o Collapse(SubSeq(t, 3, Len(t)))
    ELSE <<t[1]>> \o Collapse(Tail(t))

Finished == pstate \in {"error", "rendered"}
RenderedWell == pstate = "rendered" /\ err = NoErr /\ AllStrings(output)

\* C1: a text with no directive renders, and the concatenation of its
\* fragments is the text itself, whatever characters it consists of or
\* begins with.
C1_DirectiveFreeTextPreserved ==
    (NoDirective(text) /\ Finished) => (RenderedWell /\ Concat(output) = text)

C7_FragmentsAreStrings ==
    (PlainStart(text) /\ pstate = "rendered" /\ err = NoErr) => AllStrings(output)

\* the mark the lexer finds next, and whether it opens no directive: the
\* character after it is neither "(" nor "/", or there is none
NextMark == Find(text, OPEN_MARK, start)
AtStrayMark ==
    /\ pstate = "parsing" /\ chunks = <<>> /\ lexerr = NoErr /\ ~eof
    /\ -1 < start /\ start < Len(text) /\ NextMark # -1
    /\ (NextMark + 1 < Len(text) => At(text, NextMark + 1) \notin {OPEN_PAREN, CLOSE_MARK})

\* C28: at a mark that opens no directive, the last character of the text
\* included, the lexer yields the text before the mark and the chunk
\* ("%", None), resumes at the character after the mark and raises no
\* error; and a text of a mark and one such character renders as itself.
C28_StrayMarkIsLiteral ==
    [][/\ (AtStrayMark /\ lexVars' # lexVars)
           => /\ lexerr' = NoErr
              /\ start' = NextMark + 1
              /\ chunks' = <<Chunk(Slice(text, start, NextMark), None),
                             Chunk(<<OPEN_MARK>>, None)>>
       /\ (pstate' = "rendered" /\ Len(text) = 2 /\ text[1] = OPEN_MARK
              /\ text[2] \notin {OPEN_PAREN, CLOSE_MARK, OPEN_MARK})
           => (err' = NoErr /\ AllStrings(output') /\ Concat(output') = text)]_vars

(* ---------------------------------------------------------------------- *)
(* Properties of the lexer (SpecScan)                                     *)
(* ---------------------------------------------------------------------- *)
\* the lexer is at a mark followed by "("
AtDirective ==
    /\ ~eof /\ lexerr = NoErr /\ -1 < start /\ start < Len(text)
    /\ NextMark # -1 /\ NextMark + 1 < Len(text) /\ At(text, NextMark + 1) = OPEN_PAREN

\* the depth after the character at offset j: 1 after the parenthesis that
\* opens the directive (the one before offset from), +1 per "(", -1 per ")"
DepthAfter(s, from, j) ==
    1 + Cardinality({k \in from..j : At(s, k) = OPEN_PAREN})
      - Cardinality({k \in from..j : At(s, k) = CLOSE_PAREN})

\* the offsets of the ")" at which the depth is zero
Closers(s, from) ==
    {j \in from..(Len(s) - 1) : At(s, j) = CLOSE_PAREN /\ DepthAfter(s, from, j) = 0}

\* the longest prefix of s that is a conversion specifier (flag characters
\* and a conversion letter), or None
LongestSpecifier(s) ==
    LET lens == {k \in 1..Len(s) : s[k] \in TypeLetters /\ \A j \in 1..(k - 1) : s[j] \in TypeFlags}
    IN IF lens = {} THEN None
       ELSE SubSeq(s, 1, CHOOSE k \in lens : \A j \in lens : j <= k)

C30_NodesOnTheirLine ==
    \A i \in 1..Len(lines.nodes) : lines.nodes[i].lineno = lines.nodes[i].begins

(* ---------------------------------------------------------------------- *)
(* Properties of the cached IR of an included file (SpecShare)            *)
(* ---------------------------------------------------------------------- *)
\* C31: compiling a template that includes F leaves the function
\* definition the cache holds for F as it was installed, and every
\* includer of the unchanged F starts from that untransformed IR.
C31_CachedIRUnchanged ==
    share.cached => /\ share.heap["cached"] = share.installed
                    /\ share.started = share.installed

\* F has been included twice and the Transformer changed the statements
\* it was given the second time
C31_SecondIncluderTransformed ==
    share.n = 2 /\ share.body # share.installed

(* ---------------------------------------------------------------------- *)
(* Properties of the parser (SpecParse)                                   *)
(* ---------------------------------------------------------------------- *)
CursorTop == IF cursor = <<>> THEN 0 ELSE cursor[Len(cursor)]

\* compile(head, ..) accepts the tree: no block has an empty body
Compilable(bs) == \A st \in Blocks(bs, BlockHeaders) : bs[st.body] # <<>>

\* C2: a compile succeeds only if every block header was closed, and a
\* close marker with no block open fails the compile with FormatError.
C2_CompilesIffBalanced ==
    /\ (pstate = "done" /\ Compilable(bodies)) => open = <<>>
    /\ (last.what = "close" /\ last.want = 0) => (pstate = "error" /\ err = "FormatError")

\* C3: after a close marker the cursor is the statement list that holds
\* the header of the innermost open block, in every nesting.
C3_CloseReturnsToHeaderList ==
    (last.what = "close" /\ last.want # 0 /\ pstate = "parsing") => CursorTop = last.want

\* C4: in a chain if/elif/else that holds only text, an elif is an if in the
\* orelse of the preceding if and the cursor enters its body, an else puts
\* the cursor in the orelse of the last if, and the close marker returns
\* the cursor to the list that held the first if.
C4_ChainStructure ==
    (/\ last.what \in {"elif", "else", "close"}
     /\ last.hdr = "if" /\ last.into # 0 /\ last.pure
     /\ last.what = "close" => last.elifs > 0)
        => (pstate = "parsing" /\ last.want # 0 /\ CursorTop = last.want)

\* C9: in a compiled balanced template every directive with a conversion
\* specifier is a yield, in whichever list it stands.
C9_SpecifierYieldsOnce ==
    (pstate = "done" /\ open = <<>>)
        => \A b \in 1..Len(bodies) : \A i \in 1..Len(bodies[b]) :
              (bodies[b][i].k = "expr" /\ bodies[b][i].form # "plain") => bodies[b][i].y

\* C21: in a compiled balanced template every expression statement is a
\* yield, in whichever list it stands: execute's body, a block body, an
\* else or elif branch, the body of a function the template defines.
C21_BareExprsYield ==
    (pstate = "done" /\ open = <<>>)
        => \A b \in 1..Len(bodies) : \A i \in 1..Len(bodies[b]) :
              bodies[b][i].k = "expr" => bodies[b][i].y

\* C23: in every compile of the process, whatever the compiles before it
\* left behind, the cursor stack holds at least one list at every step and
\* its bottom is the body of execute.
C23_CursorKeepsExecute == Len(cursor) >= 1 /\ cursor[1] = 1

\* C27: in the IR of a compiled balanced template every block statement
\* has at least one statement in its body, a block closed right after its
\* header included.
C27_NoEmptyBlockBody == (pstate = "done" /\ open = <<>>) => Compilable(bodies)

\* a list of the IR as text and statements: a yielded literal is its
\* text, any other statement is #
Shape(body) == [i \in 1..Len(body) |-> IF body[i].k = "ystr" THEN body[i].s ELSE Mark]

\* what the source puts in list b, in source order
Wanted(b) ==
    LET mine == SelectSeq(spans.items, LAMBDA it : it.list = b)
    IN [i \in 1..Len(mine) |-> mine[i].s]

\* texts that follow one another taken as one text
RECURSIVE MergeRuns(_)
MergeRuns(q) ==
    IF Len(q) < 2 THEN q
    ELSE IF q[1] # Mark /\ q[2] # Mark
    THEN MergeRuns(<<q[1] \o q[2]>> \o SubSeq(q, 3, Len(q)))
    ELSE <<q[1]>> \o MergeRuns(Tail(q))

\* C22: in a compiled balanced template every list of the IR holds, as
\* yielded literals and in source order between its other statements, the
\* source text of its block level, the specifier text after a header, an
\* elif, an else or an empty directive included.
C22_TextSpansInPlace ==
    (pstate = "done" /\ open = <<>>)
        => \A b \in 1..Len(bodies) : MergeRuns(Shape(bodies[b])) = MergeRuns(Wanted(b))

(* ---------------------------------------------------------------------- *)
(* Properties of the Transformer (SpecRewrite)                            *)
(* ---------------------------------------------------------------------- *)
\* C6: a name that is read is replaced by args[name] exactly when the
\* template binds it nowhere the read can see and it is no builtin and no
\* reserved name, and no name left plain is unbound at run time.
C6_RewrittenIffFree ==
    lastRead.id # "" =>
        /\ lastRead.rewritten <=> lastRead.free
        /\ lastRead.value # "NameError"

\* C8: a call in yield position of a function the template defines is
\* joined, and renders the fragments a macro yields and the value a
\* value-returning function returns.
C8_JoinAbsorbsBoth ==
    lastCall.defined =>
        /\ lastCall.joined
        /\ lastCall.result.ty = "str"
        /\ lastCall.result.s = FuncResult(lastCall.kind).s

(* ---------------------------------------------------------------------- *)
(* Properties of the cache (SpecCache)                                    *)
(* ---------------------------------------------------------------------- *)
\* C10: a render called without skipCache after the included file was
\* modified, and during which the file is left alone, puts out the
\* content the file had when the render was called.
C10_RenderShowsNewContent ==
    (call.pc = "idle" /\ call.err = NoErr /\ renders >= 2 /\ between /\ quiet)
        => shown = atCall


\* C11: a call whose execute yielded a ResourceModified marker as its first
\* value ends by returning the recompiled template's output, never by an
\* error, whether it had found the code in the cache or compiled it itself,
\* for a text and for a file; and if no file is written during the call it
\* has recompiled exactly once.
C11_MarkerEndsInOutput ==
    (call.pc = "idle" /\ call.marker)
        => (call.err = NoErr /\ (quiet => call.recompiles = 1))

C13_SecondRenderFromCache ==
    (call.pc = "idle" /\ call.again /\ call.stamp = Stamp)
        => (call.err = NoErr /\ ~call.both /\ ~call.marker /\ call.out = call.was)

C13_RenderedTwice ==
    Returned(call) /\ call.again /\ call.stamp = Stamp /\ call.out = call.was /\ call.out > 0

\* C24: whatever calls came before it, a call puts out what its own
\* stripWhitespace and root make of the text.
C24_OutputByOwnOptions ==
    optcall.n >= 1
        => optcall.out = Execute(run, optcall.stripWhitespace, optcall.root)

\* C25: with the included file also rendered by itself, in any order, no
\* call ends because the entry it executes is not compiled code
\* (TypeError) or the entry it splices is not a function definition
\* (AttributeError).
C25_EntriesOfTheirKind ==
    call.pc = "idle" => call.err \notin {"TypeError", "AttributeError"}

(* ---------------------------------------------------------------------- *)
(* Properties of file names (SpecPath)                                    *)
(* ---------------------------------------------------------------------- *)
\* C14: when template(filename=f, root=r) has read a file, the file it
\* opened is the file its key and mtime were taken from, r joined with the
\* components of f that are neither ".." nor empty, and that file is in r
\* or below it.
C14_OpensTheKeyedFile ==
    (resolved.op = "file" /\ resolved.err = NoErr)
        => /\ Where(resolved.opened) = Where(resolved.full_name)
           /\ Under(Where(resolved.opened), Where(resolved.root))

\* the base the claim gives an include: the second positional argument,
\* else the root= keyword, else the root passed to template (".")
BaseOf(r) ==
    IF Len(r.args) > 1 THEN r.args[2].s
    ELSE IF \E i \in 1..Len(r.keywords) : r.keywords[i].arg = "root"
    THEN (CHOOSE k \in {r.keywords[i] : i \in 1..Len(r.keywords)} : k.arg = "root").value.s
    ELSE r.root

\* the components of a name but the ".." and the empty ones
Components(name) ==
    LET c == split(name)
        F[i \in 0..Len(c)] ==
            IF i = 0 THEN <<>>
            ELSE IF c[i] \in {DotDot, <<>>} THEN F[i - 1] ELSE Append(F[i - 1], c[i])
    IN F[Len(c)]

\* C15: an include resolves to the base components followed by the
\* components of its filename that are neither ".." nor empty, the base
\* being the second positional argument, else root=, else template's root;
\* the resolved name is in the base directory or below it.
C15_IncludeStaysInBase ==
    (resolved.op = "include" /\ resolved.err \in {NoErr, "OSError"}
                             /\ resolved.full_name # <<>>)
        => /\ resolved.full_name = SepJoin(split(BaseOf(resolved))
                                           \o Components(resolved.args[1].s))
           /\ Under(Where(resolved.full_name), Where(BaseOf(resolved)))

\* an include of "../a" with a base directory given, the file found
C15_DotDotIncluded ==
    /\ resolved.op = "include" /\ resolved.err = NoErr
    /\ Len(resolved.args) = 2 /\ resolved.args[1].s = <<".", ".", Sep, "a">>
    /\ resolved.full_name = <<"b", Sep, "a">>

\* an include the claim calls malformed: no filename, or a filename or a
\* base (positional or root=) that is not a string literal
Malformed(r) ==
    \/ Len(r.args) < 1
    \/ \E i \in 1..Len(r.args) : ~r.args[i].lit
    \/ \E i \in 1..Len(r.keywords) : r.keywords[i].arg = "root" /\ ~r.keywords[i].value.lit

\* C16: a malformed include is rejected with FormatError and with no other
\* exception.
C16_MalformedIsFormatError ==
    (resolved.op = "include" /\ Malformed(resolved)) => resolved.err = "FormatError"

(* ---------------------------------------------------------------------- *)
(* Properties of the include (SpecSplice)                                 *)
(* ---------------------------------------------------------------------- *)
\* C26: the Transformer makes of every statement of an included file what
\* it makes of the statement in a template that holds the file's text, at
\* the file's top level as inside its blocks.
C26_SplicedAsInline == splice.done => splice.included = splice.inline

(* ---------------------------------------------------------------------- *)
(* Properties of whitespace stripping (SpecStrip)                         *)
(* ---------------------------------------------------------------------- *)
\* the characters of s that are not a newline or one of the newlines, tabs
\* and spaces that immediately follow a newline
WithoutLineBreaks(s) ==
    LET gone(i) == \E j \in 1..i : s[j] = NL /\ \A k \in j..i : s[k] \in {NL, TAB, SP}
        F[i \in 0..Len(s)] ==
            IF i = 0 THEN <<>> ELSE IF gone(i) THEN F[i - 1] ELSE Append(F[i - 1], s[i])
    IN F[Len(s)]

\* C18: with stripWhitespace, every literal-text run (of one character or
\* more) yields its characters
\* without the newlines and the newlines, tabs and spaces that immediately
\* follow one, in order; a run of which nothing is left yields no fragment;
\* and stripping the fragment again changes nothing.
C18_RunsAreStripped ==
    (stripWhitespace /\ emitted.visited /\ run # <<>>)
        => /\ emitted.frags = IF WithoutLineBreaks(run) = <<>> THEN <<>>
                              ELSE <<WithoutLineBreaks(run)>>
           /\ restripped.done => restripped.s = emitted.frags[1]

(* ---------------------------------------------------------------------- *)
(* Properties of synth (SpecSynth)                                        *)
(* ---------------------------------------------------------------------- *)
\* C19: once synth(expr) has returned, the memo cache holds an entry for
\* expr, and a later call synth(expr) does not parse expr again.
C19_SecondCallFromCache ==
    synthCalls >= 1 => (expr \in DOMAIN _synth_cache /\ parsed = 1)

\* the index after the run that starts at i and ends before the first
\* character at or after i that is in stops
EndOfRun(e, i, stops) ==
    IF \E j \in i..Len(e) : e[j] \in stops
    THEN CHOOSE j \in i..Len(e) : e[j] \in stops /\ \A k \in i..(j - 1) : e[k] \notin stops
    ELSE Len(e) + 1

\* the tree the rules of the claim build from the character at i on:
\* an element followed by a space becomes the parent, "+" moves the parent
\* up one level, "," makes the next element a root
RECURSIVE ByRules(_, _, _)
ByRules(e, i, parent) ==
    IF i > Len(e) THEN <<>>
    ELSE IF e[i] = SP THEN ByRules(e, i + 1, parent)
    ELSE IF e[i] = "+" THEN ByRules(e, i + 1, IF parent > 0 THEN parent - 1 ELSE 0)
    ELSE IF e[i] = "," THEN ByRules(e, i + 1, 0)
    ELSE IF e[i] = QUOTE
    THEN LET j == EndOfRun(e, i + 1, {QUOTE})
         IN <<TextNode(SubSeq(e, i + 1, j - 1), parent)>> \o ByRules(e, j + 1, parent)
    ELSE LET j == EndOfRun(e, i, {SP, ",", "+", QUOTE})
         IN <<Element(SubSeq(e, i, j - 1), parent)>>
            \o ByRules(e, j, IF j <= Len(e) /\ e[j] = SP THEN parent + 1 ELSE parent)

\* an expression of elements, quoted texts, "+" and ",": quotes are
\* closed, an element ends at a space, a "," or the end, a "+" stands
\* after a space or at the start, and a "," stands between an element or
\* a text and an element, spaces apart
WellFormed(e) ==
    LET InText(i) == Cardinality({j \in 1..(i - 1) : e[j] = QUOTE}) % 2 = 1
        Out(i) == ~InText(i)
        Before(i) == {j \in 1..(i - 1) : e[j] # SP}
        Prev(i) == IF Before(i) = {} THEN 0 ELSE CHOOSE j \in Before(i) : \A k \in Before(i) : k <= j
    IN /\ Cardinality({j \in 1..Len(e) : e[j] = QUOTE}) % 2 = 0
       /\ \A i \in 1..Len(e) :
             /\ (e[i] = QUOTE /\ Out(i)) => (i = 1 \/ e[i - 1] \in {SP, ","})
             /\ (e[i] = "+" /\ Out(i)) => (i = 1 \/ e[i - 1] = SP)
             /\ (e[i] = "a" /\ Out(i)) => (i = 1 \/ e[i - 1] # QUOTE)
             /\ (e[i] = "," /\ Out(i))
                   => /\ Prev(i) > 0 /\ e[Prev(i)] \in {"a", QUOTE}
                      /\ \E j \in (i + 1)..Len(e) :
                            e[j] = "a" /\ \A k \in (i + 1)..(j - 1) : e[k] = SP

\* C20: for every expression, synth builds the tree the rules give.
C20_TreeByRules ==
    (synthCalls >= 1 /\ WellFormed(expr)) => tree = ByRules(expr, 1, 0)

(* ---------------------------------------------------------------------- *)
(* Properties of two compiling threads (SpecThreads)                      *)
(* ---------------------------------------------------------------------- *)
\* C17: whatever the interleaving, a thread that has compiled its template
\* has the tree (or the exception) it gets when it compiles alone.
C17_EachThreadAsAlone ==
    \A t \in DOMAIN workers :
        workers[t].done => IR(workers[t].P) = IR(CompileFrom(Fresh, workers[t].tpl))

====
